---- MODULE Spec2Model ----
(***************************************************************************)
(* Model of the wgpu renderer (openagent-terminal/src/renderer/wgpu.rs):   *)
(* the shelf allocator WgpuAtlas, the page array with its LRU metadata,    *)
(* the glyph loader's miss protocol, the deferred eviction, and the frame  *)
(* path that stages cells and strings and presents them in draw_rects;     *)
(* with them the status file of the local sync provider                    *)
(* (openagent-terminal-sync/src/local_fs.rs) and the command palette       *)
(* (openagent-terminal/src/display/palette.rs).                            *)
(***************************************************************************)
EXTENDS Integers, Sequences, FiniteSets, TLC

(* Instance sizes.  The source has NUM_ATLAS_PAGES = 4 pages of            *)
(* ATLAS_SIZE = 2048 pixels; the model keeps the code and instantiates it  *)
(* at a small page count and page size.                                    *)
NUM_ATLAS_PAGES == 2
ATLAS_SIZE == 3
(* Bounds on the load_glyph calls of one run: a call that would take the   *)
(* inserts counter above MaxInserts, or the misses counter above           *)
(* MaxMisses, is not made.                                                 *)
MaxInserts == 3
MaxMisses == 2
(* Bound on the non-empty rectangles one page hands out between two clears *)
(* when WgpuAtlas is exercised alone.                                      *)
MaxRects == 3

(* u64::MAX.  The counters and timestamps are u64 in the source; the model  *)
(* keeps the largest integer of the checker in its place, far above every  *)
(* value a bounded run reaches.                                            *)
U64_MAX == 2147483647

Layers == 0 .. (NUM_ATLAS_PAGES - 1)
(* Option<u32>::None of pending_eviction.                                  *)
NoLayer == -1
(* Widths and heights handed to WgpuAtlas::insert: empty, one pixel, one   *)
(* pixel less than the page, the page size and one pixel more.             *)
GlyphSizes == {0, 1, ATLAS_SIZE - 1, ATLAS_SIZE, ATLAS_SIZE + 1}
(* <<width, height>> of the glyphs the rasterizer hands to load_glyph: the *)
(* empty glyph, a small glyph, one that fills a page, one as high as a     *)
(* page, and one too wide and one too high for any page.                   *)
GlyphDims ==
    { <<0, 0>>, <<1, 1>>, <<ATLAS_SIZE, ATLAS_SIZE - 1>>, <<1, ATLAS_SIZE>>,
      <<ATLAS_SIZE + 1, 1>>, <<1, ATLAS_SIZE + 1>> }

Policies == {"RoundRobin", "LruMinOccupancy"}

VARIABLES
    atlas_pages,            \* Vec<WgpuAtlas>: layer -> allocator state
    page_meta,              \* Vec<AtlasPageMeta>: layer -> [last_use]
    current_page,
    use_clock,
    pending_eviction,       \* Option<u32>: NoLayer or a layer
    policy,
    atlas_inserts,
    atlas_insert_misses,
    atlas_evictions_count,
    atlas_evicted,          \* Cell<bool>
    op,                     \* history: the operation of the last step
    arg,                    \* history: <<w, h>> of the last load_glyph or successful insert
    glyph,                  \* history: the Glyph the last load_glyph returned
    result,                 \* history: what the last bool- or Option-valued operation returned
    offset,                 \* history: <<x, y>> the last insert returned
    placed,                 \* history: non-empty rectangles insert handed out on page 0 since its last clear
    recover,                \* history: 1 after a load_glyph miss, 2 after the evict_one_page that follows
    subpixel_enabled,
    pending_text,           \* Vec<TextVertex> staged for the next frame
    pending_bg,             \* Vec<RenderRect> staged for the next frame
    pending_clear,          \* Cell<Option<[f64; 4]>>: NoClear or a colour
    glyph_cache,            \* the host's GlyphCache: glyph key -> Glyph
    draws,                  \* history: the number of draw_cells and draw_string calls so far
    frame,                  \* history: what the last draw_rects did with the surface
    drawn,                  \* history: the cells or characters of the last draw_cells or draw_string
    size,                   \* PhysicalSize<u32>
    proj_buffer,            \* the projection uniform of the text shader
    configured,             \* the size the surface was last configured with
    fragment,               \* history: the last fragment the text shader was run for
    status_file,            \* sync_status.json of the sync provider: [exists, content]
    palette                 \* PaletteState of the command palette

vars == <<atlas_pages, page_meta, current_page, use_clock, pending_eviction, policy,
          atlas_inserts, atlas_insert_misses, atlas_evictions_count, atlas_evicted,
          op, arg, glyph, result, offset, placed, recover,
          subpixel_enabled, pending_text, pending_bg, pending_clear, glyph_cache, draws,
          frame, drawn, size, proj_buffer, configured, fragment,
          status_file, palette>>

(* The renderer's frame staging state, with the host's glyph cache and the *)
(* count of the draw calls.                                                *)
frame_vars ==
    <<subpixel_enabled, pending_text, pending_bg, pending_clear, glyph_cache, draws,
      size, proj_buffer, configured, fragment>>

(* The state outside the renderer: the status file of the local sync      *)
(* provider and the command palette.                                       *)
host_vars == <<status_file, palette>>

(* No sync_status.json in the base directory.                              *)
NoFile == [exists |-> FALSE, content |-> ""]

(* PaletteState::new.                                                      *)
PaletteState_new ==
    [active |-> FALSE, filter |-> "", items |-> <<>>, filtered_indices |-> <<>>,
     selected |-> 0]

Min(a, b) == IF a < b THEN a ELSE b

Max(a, b) == IF a > b THEN a ELSE b

saturating_add(a, b) == Min(a + b, U64_MAX)

wrapping_add(a, b) == IF a > U64_MAX - b THEN (a - U64_MAX) + (b - 1) ELSE a + b

(* ------------------------------ WgpuAtlas ------------------------------ *)

WgpuAtlas_new(sz) ==
    [width |-> sz, height |-> sz,
     row_extent |-> 0, row_baseline |-> 0, row_tallest |-> 0, used_area |-> 0]

(* A clear that starts a new row and keeps the baseline.                   *)
WgpuAtlas_clear_row(p) ==
    [p EXCEPT !.row_extent = 0, !.row_tallest = 0, !.used_area = 0]

WgpuAtlas_clear(p) ==
    [p EXCEPT !.row_extent = 0, !.row_baseline = 0, !.row_tallest = 0, !.used_area = 0]

(* room_in_row that looks at the height only.                              *)
room_in_row_any_width(p, w, h) == h < (p.height - p.row_baseline)

room_in_row(p, w, h) ==
    LET next_extent == p.row_extent + w
        enough_width == next_extent <= p.width
        enough_height == h < (p.height - p.row_baseline)
    IN  enough_width /\ enough_height

(* advance_row that starts the new row on the baseline of the old one.     *)
advance_row_same_baseline(p) ==
    IF p.height - (p.row_baseline + p.row_tallest) <= 0
    THEN [ok |-> FALSE, page |-> p]
    ELSE [ok |-> TRUE, page |-> [p EXCEPT !.row_extent = 0, !.row_tallest = 0]]

(* advance_row: [ok, page]; the page is changed only when ok.              *)
advance_row(p) ==
    LET advance_to == p.row_baseline + p.row_tallest
    IN  IF p.height - advance_to <= 0
        THEN [ok |-> FALSE, page |-> p]
        ELSE [ok |-> TRUE,
              page |-> [p EXCEPT !.row_baseline = advance_to,
                                 !.row_extent = 0,
                                 !.row_tallest = 0]]

(* insert: [ok, x, y, page]; ok = FALSE is None.  The page returned with   *)
(* None is the page as insert leaves it (advance_row may have run).        *)
insert(p, w, h) ==
    IF w > p.width \/ h > p.height
    THEN [ok |-> FALSE, x |-> 0, y |-> 0, page |-> p]
    ELSE LET adv == IF ~room_in_row(p, w, h) THEN advance_row(p)
                    ELSE [ok |-> TRUE, page |-> p]
             q == adv.page
         IN  IF ~adv.ok
             THEN [ok |-> FALSE, x |-> 0, y |-> 0, page |-> q]
             ELSE IF ~room_in_row(q, w, h)
             THEN [ok |-> FALSE, x |-> 0, y |-> 0, page |-> q]
             ELSE [ok |-> TRUE, x |-> q.row_extent, y |-> q.row_baseline,
                   page |-> [q EXCEPT !.row_extent = q.row_extent + w,
                                      !.row_tallest = IF h > q.row_tallest
                                                      THEN h ELSE q.row_tallest]]

(* ---------------------------- WgpuRenderer ----------------------------- *)

(* f32 quotient n / d of two pixel counts, kept exact as <<n, d>>.         *)
Frac(n, d) == <<n, d>>

Zero == Frac(0, 1)

(* The Glyph returned on a miss (lines 946-957): top and left are those of *)
(* the rasterized glyph, every other field is zero.                        *)
placeholder(top, left) ==
    [tex_id |-> 0, multicolor |-> FALSE, top |-> top, left |-> left,
     width |-> 0, height |-> 0,
     uv_bot |-> Zero, uv_left |-> Zero, uv_width |-> Zero, uv_height |-> Zero]

(* The placeholder of a glyph with top = left = 0; also the value the      *)
(* history variable glyph holds when the last step returned no Glyph.      *)
Placeholder == placeholder(0, 0)

(* The probe loop of load_glyph: pages current_page, current_page + 1, ... *)
(* modulo the page count; every probed page keeps what insert did to it.   *)
RECURSIVE probe(_, _, _, _, _)
probe(pages, cur, i, w, h) ==
    IF i >= NUM_ATLAS_PAGES
    THEN [chosen |-> FALSE, pages |-> pages, page |-> 0, ox |-> 0, oy |-> 0]
    ELSE LET page == (cur + i) % NUM_ATLAS_PAGES
             r == insert(pages[page], w, h)
             probed == [pages EXCEPT ![page] = r.page]
         IN  IF r.ok
             THEN [chosen |-> TRUE, pages |-> probed, page |-> page,
                   ox |-> r.x, oy |-> r.y]
             ELSE probe(probed, cur, i + 1, w, h)

(* The tuple comparison with the occupancy compared first.                 *)
key_less_area_first(key, best_key) ==
    \/ key[2] < best_key[2]
    \/ key[2] = best_key[2] /\ key[1] < best_key[1]

(* (ts, used) < best_key on Rust tuples: lexicographic.                    *)
key_less(key, best_key) ==
    \/ key[1] < best_key[1]
    \/ key[1] = best_key[1] /\ key[2] < best_key[2]

RECURSIVE lru_scan(_, _, _, _, _)
lru_scan(pages, meta, i, best_i, best_key) ==
    IF i >= NUM_ATLAS_PAGES
    THEN best_i
    ELSE LET key == <<meta[i].last_use, pages[i].used_area>>
         IN  IF key_less(key, best_key)
             THEN lru_scan(pages, meta, i + 1, i, key)
             ELSE lru_scan(pages, meta, i + 1, best_i, best_key)

lru_min_occupancy(pages, meta) == lru_scan(pages, meta, 0, 0, <<U64_MAX, U64_MAX>>)

(* Round robin without the wrap, and round robin that stays on the page.   *)
round_robin_no_wrap(cur) == cur + 1

round_robin_current(cur) == cur % NUM_ATLAS_PAGES

round_robin(cur) == (cur + 1) % NUM_ATLAS_PAGES

(* victim_idx of a miss (lines 925-941).                                   *)
select_victim(pol, pages, meta, cur) ==
    IF pol = "RoundRobin" THEN round_robin(cur) ELSE lru_min_occupancy(pages, meta)

(* A plain assignment in place of get_or_insert.                           *)
get_or_insert_overwrite(pending, v) == v

(* Option::get_or_insert on pending_eviction.                              *)
get_or_insert(pending, v) == IF pending = NoLayer THEN v ELSE pending

(* A Glyph whose uv_width is the right edge u1 instead of u1 - u0.         *)
loaded_glyph_u1(page_idx, ox, oy, rz, dims) ==
    [tex_id |-> page_idx + 1, multicolor |-> rz.rgba, top |-> rz.top, left |-> rz.left,
     width |-> rz.width, height |-> rz.height,
     uv_bot |-> Frac(oy, dims.height), uv_left |-> Frac(ox, dims.width),
     uv_width |-> Frac(ox + rz.width, dims.width),
     uv_height |-> Frac((oy + rz.height) - oy, dims.height)]

(* A Glyph that carries the page index itself as tex_id.                   *)
loaded_glyph_zero_based(page_idx, ox, oy, rz, dims) ==
    [tex_id |-> page_idx, multicolor |-> rz.rgba, top |-> rz.top, left |-> rz.left,
     width |-> rz.width, height |-> rz.height,
     uv_bot |-> Frac(oy, dims.height), uv_left |-> Frac(ox, dims.width),
     uv_width |-> Frac((ox + rz.width) - ox, dims.width),
     uv_height |-> Frac((oy + rz.height) - oy, dims.height)]

(* The Glyph of a successful load (lines 993-1012).                        *)
loaded_glyph(page_idx, ox, oy, rz, dims) ==
    [tex_id |-> page_idx + 1, multicolor |-> rz.rgba, top |-> rz.top, left |-> rz.left,
     width |-> rz.width, height |-> rz.height,
     uv_bot |-> Frac(oy, dims.height), uv_left |-> Frac(ox, dims.width),
     uv_width |-> Frac((ox + rz.width) - ox, dims.width),
     uv_height |-> Frac((oy + rz.height) - oy, dims.height)]

Rect(x, y, w, h) == [x |-> x, y |-> y, w |-> w, h |-> h]

(* Option::None of pending_clear.                                          *)
NoClear == <<>>

(* The host's glyph cache with no entry.                                   *)
EmptyCache == [k \in {} |-> Placeholder]

(* No draw_rects was called yet.                                           *)
NoFrame ==
    [presented |-> FALSE, attempts |-> 0, configures |-> 0,
     clear |-> <<>>, rects |-> <<>>, text |-> <<>>, log |-> <<>>,
     surface |-> <<>>]

(* The text shader was not run yet.                                        *)
NoFragment ==
    [buffer |-> "-", source |-> <<>>, sample |-> <<>>, color |-> <<>>, flags |-> 0,
     out |-> <<>>]

PhysicalSize(width, height) == [width |-> width, height |-> height]

(* The size of the window the renderer is constructed for.                 *)
InitialSize == PhysicalSize(8, 6)

projection_from_size(sz) ==
    [offset_x |-> -1, offset_y |-> 1,
     scale_x |-> Frac(2, Max(sz.width, 1)),
     scale_y |-> Frac(-2, Max(sz.height, 1))]

(* The renderer after construction, but for the size of its pages and for  *)
(* subpixel_enabled.                                                       *)
InitCore ==
    /\ page_meta = [l \in Layers |-> [last_use |-> 0]]
    /\ current_page = 0
    /\ use_clock = 1
    /\ pending_eviction = NoLayer
    /\ policy \in Policies
    /\ atlas_inserts = 0
    /\ atlas_insert_misses = 0
    /\ atlas_evictions_count = 0
    /\ atlas_evicted = FALSE
    /\ op = "new"
    /\ arg = <<0, 0>>
    /\ glyph = Placeholder
    /\ result = FALSE
    /\ offset = <<0, 0>>
    /\ placed = {}
    /\ recover = 0
    /\ pending_text = <<>>
    /\ pending_bg = <<>>
    /\ pending_clear = NoClear
    /\ glyph_cache = EmptyCache
    /\ draws = 0
    /\ frame = NoFrame
    /\ drawn = <<>>
    /\ size = InitialSize
    /\ proj_buffer = projection_from_size(InitialSize)
    /\ configured = InitialSize
    /\ fragment = NoFragment
    /\ status_file = NoFile
    /\ palette = PaletteState_new

(* Lines 311-315: subpixel_enabled by the preference and the surface       *)
(* format.                                                                 *)
resolve_subpixel(subpixel_pref, is_srgb_surface) ==
    CASE subpixel_pref = "Enabled" -> TRUE
      [] subpixel_pref = "Disabled" -> FALSE
      [] subpixel_pref = "Auto" -> is_srgb_surface

(* The renderer with subpixel rendering disabled, but for the size of its *)
(* pages.                                                                  *)
InitRest == InitCore /\ subpixel_enabled = resolve_subpixel("Disabled", FALSE)

Init ==
    /\ atlas_pages = [l \in Layers |-> WgpuAtlas_new(ATLAS_SIZE)]
    /\ InitRest

(* The history of a step that is no load_glyph, insert, bool-valued call   *)
(* or draw_rects.                                                          *)
NoReturn ==
    /\ arg' = <<0, 0>> /\ glyph' = Placeholder /\ offset' = <<0, 0>>
    /\ frame' = NoFrame /\ drawn' = <<>>

NoResult == result' = FALSE

(* The fields of the renderer that load_glyph reads and writes, as a      *)
(* record, so that a caller can thread them through several loads.         *)
AtlasState ==
    [atlas_pages |-> atlas_pages, page_meta |-> page_meta,
     current_page |-> current_page, use_clock |-> use_clock,
     pending_eviction |-> pending_eviction, atlas_evicted |-> atlas_evicted,
     atlas_inserts |-> atlas_inserts, atlas_insert_misses |-> atlas_insert_misses]

(* A hit that stamps the page but does not advance the clock.             *)
hit_stale_clock(st, pr, w, h) ==
    [st EXCEPT !.current_page = pr.page,
               !.page_meta = [st.page_meta EXCEPT ![pr.page].last_use = st.use_clock],
               !.atlas_pages = [pr.pages EXCEPT ![pr.page].used_area =
                                    saturating_add(@, w * h)],
               !.atlas_inserts = wrapping_add(st.atlas_inserts, 1)]

(* A hit that stamps the page with the clock it leaves behind.             *)
hit_stamp_after(st, pr, w, h) ==
    [st EXCEPT !.current_page = pr.page,
               !.use_clock = wrapping_add(st.use_clock, 1),
               !.page_meta = [st.page_meta EXCEPT ![pr.page].last_use =
                                  wrapping_add(st.use_clock, 1)],
               !.atlas_pages = [pr.pages EXCEPT ![pr.page].used_area =
                                    saturating_add(@, w * h)],
               !.atlas_inserts = wrapping_add(st.atlas_inserts, 1)]

(* The renderer after a load_glyph hit (lines 905-918).                    *)
hit(st, pr, w, h) ==
    LET ts == st.use_clock
    IN  [st EXCEPT !.current_page = pr.page,
                   !.use_clock = wrapping_add(st.use_clock, 1),
                   !.page_meta = [st.page_meta EXCEPT ![pr.page].last_use = ts],
                   !.atlas_pages = [pr.pages EXCEPT ![pr.page].used_area =
                                        saturating_add(@, w * h)],
                   !.atlas_inserts = wrapping_add(st.atlas_inserts, 1)]

(* A miss that clears the victim page at once.                             *)
miss_pages_eager(pages, victim) == [pages EXCEPT ![victim] = WgpuAtlas_clear(@)]

(* The pages a miss leaves: the probed pages; the victim is not touched.   *)
miss_pages(pages, victim) == pages

(* A miss that also makes the victim the current page.                     *)
miss_moves_page(st, pol, pr) ==
    LET victim == select_victim(pol, pr.pages, st.page_meta, st.current_page)
    IN  [st EXCEPT !.pending_eviction = get_or_insert(st.pending_eviction, victim),
                   !.atlas_evicted = TRUE,
                   !.atlas_insert_misses = wrapping_add(st.atlas_insert_misses, 1),
                   !.current_page = victim,
                   !.atlas_pages = miss_pages(pr.pages, victim)]

(* A miss that is not counted.                                             *)
miss_uncounted(st, pol, pr) ==
    LET victim == select_victim(pol, pr.pages, st.page_meta, st.current_page)
    IN  [st EXCEPT !.pending_eviction = get_or_insert(st.pending_eviction, victim),
                   !.atlas_evicted = TRUE,
                   !.atlas_pages = miss_pages(pr.pages, victim)]

(* The renderer after a load_glyph miss (lines 923-945).                   *)
miss(st, pol, pr) ==
    LET victim == select_victim(pol, pr.pages, st.page_meta, st.current_page)
    IN  [st EXCEPT !.pending_eviction = get_or_insert(st.pending_eviction, victim),
                   !.atlas_evicted = TRUE,
                   !.atlas_insert_misses = wrapping_add(st.atlas_insert_misses, 1),
                   !.atlas_pages = miss_pages(pr.pages, victim)]

(* load_glyph after its probe loop returned pr: the upload and the Glyph   *)
(* of a hit (lines 905-918, 960-1012), or the miss (lines 921-958).        *)
load_probed(st, pol, rz, pr) ==
    IF pr.chosen
    THEN [st |-> hit(st, pr, rz.width, rz.height),
          glyph |-> loaded_glyph(pr.page, pr.ox, pr.oy, rz, st.atlas_pages[0])]
    ELSE [st |-> miss(st, pol, pr),
          glyph |-> placeholder(rz.top, rz.left)]

(* WgpuGlyphLoader::load_glyph on the renderer st for the rasterized glyph *)
(* rz = [width, height, top, left, rgba]: the renderer it leaves and the   *)
(* Glyph it returns.                                                       *)
load_glyph(st, pol, rz) ==
    load_probed(st, pol, rz, probe(st.atlas_pages, st.current_page, 0, rz.width, rz.height))

(* The renderer fields of the next state are those of the record st.       *)
Commit(st) ==
    /\ atlas_pages' = st.atlas_pages
    /\ page_meta' = st.page_meta
    /\ current_page' = st.current_page
    /\ use_clock' = st.use_clock
    /\ pending_eviction' = st.pending_eviction
    /\ atlas_evicted' = st.atlas_evicted
    /\ atlas_inserts' = st.atlas_inserts
    /\ atlas_insert_misses' = st.atlas_insert_misses

(* The calls a bounded run makes: none that takes a counter above its bound. *)
WithinBounds(st) ==
    st.atlas_inserts <= MaxInserts /\ st.atlas_insert_misses <= MaxMisses

(* The renderer and the history after load_glyph(rz) returned r.          *)
Loaded(rz, r) ==
    /\ WithinBounds(r.st)
    /\ Commit(r.st)
    /\ glyph' = r.glyph
    /\ recover' = IF r.glyph.tex_id = 0 THEN 1 ELSE 0
    /\ op' = "load_glyph"
    /\ arg' = <<rz.width, rz.height>>
    /\ result' = FALSE
    /\ offset' = <<0, 0>>
    /\ frame' = NoFrame
    /\ drawn' = <<>>
    /\ UNCHANGED <<policy, atlas_evictions_count, placed>>
    /\ UNCHANGED frame_vars
    /\ UNCHANGED host_vars

(* One call of WgpuGlyphLoader::load_glyph.                                *)
LoadGlyph(rz) == Loaded(rz, load_glyph(AtlasState, policy, rz))

(* WgpuRenderer::take_atlas_evicted.                                       *)
TakeAtlasEvictedSticky ==
    /\ result' = atlas_evicted
    /\ atlas_evicted' = atlas_evicted
    /\ op' = "take_atlas_evicted"
    /\ NoReturn
    /\ recover' = 0
    /\ UNCHANGED <<atlas_pages, page_meta, current_page, use_clock, pending_eviction,
                   policy, atlas_inserts, atlas_insert_misses, atlas_evictions_count,
                   placed>>
    /\ UNCHANGED frame_vars
    /\ UNCHANGED host_vars

TakeAtlasEvicted ==
    /\ result' = atlas_evicted
    /\ atlas_evicted' = FALSE
    /\ op' = "take_atlas_evicted"
    /\ NoReturn
    /\ recover' = 0
    /\ UNCHANGED <<atlas_pages, page_meta, current_page, use_clock, pending_eviction,
                   policy, atlas_inserts, atlas_insert_misses, atlas_evictions_count,
                   placed>>
    /\ UNCHANGED frame_vars
    /\ UNCHANGED host_vars

(* WgpuRenderer::reset_atlas.                                              *)
ResetAtlas ==
    /\ atlas_pages' = [l \in Layers |-> WgpuAtlas_clear(atlas_pages[l])]
    /\ page_meta' = [l \in Layers |-> [page_meta[l] EXCEPT !.last_use = 0]]
    /\ current_page' = 0
    /\ pending_eviction' = NoLayer
    /\ op' = "reset_atlas"
    /\ NoReturn
    /\ recover' = 0
    /\ NoResult
    /\ UNCHANGED <<use_clock, policy, atlas_inserts, atlas_insert_misses,
                   atlas_evictions_count, atlas_evicted, placed>>
    /\ UNCHANGED frame_vars
    /\ UNCHANGED host_vars

(* Eviction that clears every page, and eviction that keeps last_use.      *)
evict_pages_all(pages, layer) == [l \in DOMAIN pages |-> WgpuAtlas_clear(pages[l])]

evict_meta_keep(meta, layer) == meta

(* The page and metadata arrays after evict_one_page took `layer`          *)
(* (lines 819-825).                                                        *)
evict_pages(pages, layer) == [pages EXCEPT ![layer] = WgpuAtlas_clear(@)]

evict_meta(meta, layer) == [meta EXCEPT ![layer].last_use = 0]

(* WgpuRenderer::evict_one_page.                                           *)
EvictOnePage ==
    /\ IF pending_eviction # NoLayer
       THEN LET layer == pending_eviction
            IN  /\ pending_eviction' = NoLayer
                /\ atlas_pages' = evict_pages(atlas_pages, layer)
                /\ page_meta' = evict_meta(page_meta, layer)
                /\ current_page' = layer
                /\ atlas_evictions_count' = wrapping_add(atlas_evictions_count, 1)
                /\ result' = TRUE
       ELSE /\ result' = FALSE
            /\ UNCHANGED <<pending_eviction, atlas_pages, page_meta, current_page,
                           atlas_evictions_count>>
    /\ op' = "evict_one_page"
    /\ frame' = NoFrame
    /\ drawn' = <<>>
    /\ glyph' = Placeholder
    /\ offset' = <<0, 0>>
    /\ recover' = IF recover = 1 THEN 2 ELSE 0
    /\ arg' = IF recover = 1 THEN arg ELSE <<0, 0>>
    /\ UNCHANGED <<use_clock, policy, atlas_inserts, atlas_insert_misses, atlas_evicted,
                   placed>>
    /\ UNCHANGED frame_vars
    /\ UNCHANGED host_vars

(* A clear that also forgets when the pages were used and which page is   *)
(* to be evicted.                                                          *)
LoaderClearAll ==
    /\ atlas_pages' = [l \in Layers |-> WgpuAtlas_clear(atlas_pages[l])]
    /\ page_meta' = [l \in Layers |-> [page_meta[l] EXCEPT !.last_use = 0]]
    /\ pending_eviction' = NoLayer
    /\ current_page' = 0
    /\ op' = "clear"
    /\ NoReturn
    /\ recover' = 0
    /\ NoResult
    /\ UNCHANGED <<use_clock, policy, atlas_inserts,
                   atlas_insert_misses, atlas_evictions_count, atlas_evicted, placed>>
    /\ UNCHANGED frame_vars
    /\ UNCHANGED host_vars

(* WgpuGlyphLoader::clear.                                                 *)
LoaderClear ==
    /\ atlas_pages' = [l \in Layers |-> WgpuAtlas_clear(atlas_pages[l])]
    /\ current_page' = 0
    /\ op' = "clear"
    /\ NoReturn
    /\ recover' = 0
    /\ NoResult
    /\ UNCHANGED <<page_meta, use_clock, pending_eviction, policy, atlas_inserts,
                   atlas_insert_misses, atlas_evictions_count, atlas_evicted, placed>>
    /\ UNCHANGED frame_vars
    /\ UNCHANGED host_vars

(* A rasterized glyph of d = <<width, height>> pixels sitting on the       *)
(* baseline at the left edge of its cell.                                  *)
RasterizedGlyph(d, rgba) ==
    [width |-> d[1], height |-> d[2], top |-> d[2], left |-> 0, rgba |-> rgba]

(* The rasterized glyphs of a run: every size with a coverage (Rgb) buffer  *)
(* and the small glyph also with a colour (Rgba) buffer.                   *)
Rasterized ==
    {RasterizedGlyph(d, FALSE) : d \in GlyphDims} \cup {RasterizedGlyph(<<1, 1>>, TRUE)}

Next ==
    \/ \E rz \in Rasterized : LoadGlyph(rz)
    \/ TakeAtlasEvicted
    \/ EvictOnePage
    \/ ResetAtlas
    \/ LoaderClear

Spec == Init /\ [][Next]_vars

(* ------------------- WgpuAtlas alone: one page ------------------------- *)

(* WgpuAtlas::insert(w, h) called on page 0.                               *)
PageInsert(w, h) ==
    LET r == insert(atlas_pages[0], w, h)
    IN  /\ (r.ok /\ w > 0 /\ h > 0) => Cardinality(placed) < MaxRects
        /\ atlas_pages' = [atlas_pages EXCEPT ![0] = r.page]
        /\ result' = r.ok
        /\ offset' = <<r.x, r.y>>
        /\ placed' = IF r.ok /\ w > 0 /\ h > 0
                     THEN placed \cup {Rect(r.x, r.y, w, h)}
                     ELSE placed
        /\ op' = "insert"
        /\ arg' = IF r.ok THEN <<w, h>> ELSE <<0, 0>>
        /\ UNCHANGED <<page_meta, current_page, use_clock, pending_eviction, policy,
                       atlas_inserts, atlas_insert_misses, atlas_evictions_count,
                       atlas_evicted, glyph, recover, frame, drawn>>
        /\ UNCHANGED frame_vars
        /\ UNCHANGED host_vars

(* WgpuAtlas::clear() called on page 0.                                    *)
PageClear ==
    /\ atlas_pages' = [atlas_pages EXCEPT ![0] = WgpuAtlas_clear(@)]
    /\ placed' = {}
    /\ op' = "page_clear"
    /\ arg' = arg
    /\ offset' = <<0, 0>>
    /\ result' = FALSE
    /\ UNCHANGED <<page_meta, current_page, use_clock, pending_eviction, policy,
                   atlas_inserts, atlas_insert_misses, atlas_evictions_count,
                   atlas_evicted, glyph, recover, frame, drawn>>
    /\ UNCHANGED frame_vars
    /\ UNCHANGED host_vars

NextPage ==
    \/ \E w \in GlyphSizes, h \in GlyphSizes : PageInsert(w, h)
    \/ PageClear

InitPage == Init /\ policy = "LruMinOccupancy"

SpecPage == InitPage /\ [][NextPage]_vars

(* ----------------- WgpuAtlas alone: a 16 x 16 page --------------------- *)

(* Widths and heights of the glyphs put on the 16 x 16 page: a quarter,    *)
(* a half and the whole of a side.                                         *)
ShelfSizes == {4, 8, 16}

InitShelf ==
    /\ atlas_pages = [l \in Layers |-> WgpuAtlas_new(16)]
    /\ InitRest
    /\ policy = "LruMinOccupancy"

NextShelf ==
    \/ \E w \in ShelfSizes, h \in ShelfSizes : PageInsert(w, h)
    \/ PageClear

SpecShelf == InitShelf /\ [][NextShelf]_vars

(* --------------- The renderer with 16 x 16 pages ----------------------- *)

(* The glyphs loaded into 16 x 16 pages: a quarter of a page, a sixteenth, *)
(* and one as large as a page.                                             *)
WrapGlyphs ==
    { RasterizedGlyph(<<8, 8>>, FALSE), RasterizedGlyph(<<4, 4>>, FALSE),
      RasterizedGlyph(<<16, 16>>, FALSE) }

InitWrap ==
    /\ atlas_pages = [l \in Layers |-> WgpuAtlas_new(16)]
    /\ InitRest
    /\ policy = "RoundRobin"

NextWrap ==
    \/ \E rz \in WrapGlyphs : LoadGlyph(rz)
    \/ TakeAtlasEvicted
    \/ EvictOnePage

SpecWrap == InitWrap /\ [][NextWrap]_vars

(* ------------------------- Frame staging ------------------------------- *)

(* Bound on the quads, and on the background rectangles, that wait in      *)
(* pending_text and pending_bg.                                            *)
MaxQuads == 2
(* Bound on the draw_cells and draw_string calls of one run.               *)
MaxDraws == 2

(* The SizeInfo the host passes: cell size and padding in pixels, and the  *)
(* size of the surface.                                                    *)
size_info ==
    [cell_width |-> 2, cell_height |-> 3, padding_x |-> 1, padding_y |-> 1,
     width |-> 8, height |-> 6]

Rgb(r, g, b) == [r |-> r, g |-> g, b |-> b]

White == Rgb(255, 255, 255)

Red == Rgb(255, 0, 0)

(* The sum of two exact quotients.                                         *)
FracAdd(a, b) ==
    IF a[2] = b[2] THEN <<a[1] + b[1], a[2]>>
    ELSE <<a[1] * b[2] + b[1] * a[2], a[2] * b[2]>>

(* The glyph the font rasterizer produces for a glyph key: the space is    *)
(* empty, "a" and the combining "z" are one pixel, "M" fills a page and    *)
(* the emoji "e" is one pixel of colour.                                   *)
rasterize(key) ==
    CASE key[2] = " " -> RasterizedGlyph(<<0, 0>>, FALSE)
      [] key[2] = "M" -> RasterizedGlyph(<<ATLAS_SIZE, ATLAS_SIZE - 1>>, FALSE)
      [] key[2] = "e" -> RasterizedGlyph(<<1, 1>>, TRUE)
      [] OTHER -> RasterizedGlyph(<<1, 1>>, FALSE)

(* The cache and the renderer after load_glyph returned r for the key.     *)
cache_loaded(cache, key, r) ==
    [cache |-> cache @@ (key :> r.glyph), st |-> r.st, glyph |-> r.glyph]

(* GlyphCache::get: the cached Glyph of the key, or the Glyph load_glyph   *)
(* returns for its rasterization, which is then cached.                    *)
glyph_cache_get(cache, st, key) ==
    IF key \in DOMAIN cache
    THEN [cache |-> cache, st |-> st, glyph |-> cache[key]]
    ELSE cache_loaded(cache, key, load_glyph(st, policy, rasterize(key)))

RenderRect(x, y, width, height, color, alpha) ==
    [x |-> x, y |-> y, width |-> width, height |-> height,
     color |-> color, alpha |-> alpha]

TextVertex(pos, uv, color, flags, layer) ==
    [pos |-> pos, uv |-> uv, color |-> color, flags |-> flags, layer |-> layer]

(* Flags that carry the multicolor bit only.                               *)
vertex_flags_glyph_only(g, subpixel) == IF g.multicolor THEN 1 ELSE 0

(* Lines 876-878: bit 0 for a multicolor glyph, bit 1 for subpixel.        *)
vertex_flags(g, subpixel) ==
    (IF g.multicolor THEN 1 ELSE 0) + (IF subpixel THEN 2 ELSE 0)

(* build_text_vertices: the six vertices of the quad of one glyph.         *)
build_text_vertices(cell, g) ==
    LET cell_x == cell.point.column * size_info.cell_width + size_info.padding_x
        gx == cell_x + g.left
        gy == (cell.point.line + 1) * size_info.cell_height + size_info.padding_y - g.top
        x0 == gx
        y0 == gy - g.height
        x1 == gx + g.width
        y1 == gy
        u0 == g.uv_left
        v0 == g.uv_bot
        u1 == FracAdd(u0, g.uv_width)
        v1 == FracAdd(v0, g.uv_height)
        color == <<cell.fg.r, cell.fg.g, cell.fg.b, 255>>
        flags == vertex_flags(g, subpixel_enabled)
        layer == IF g.tex_id > 0 THEN g.tex_id - 1 ELSE 0
    IN  << TextVertex(<<x0, y0>>, <<u0, v0>>, color, flags, layer),
           TextVertex(<<x0, y1>>, <<u0, v1>>, color, flags, layer),
           TextVertex(<<x1, y0>>, <<u1, v0>>, color, flags, layer),
           TextVertex(<<x1, y0>>, <<u1, v0>>, color, flags, layer),
           TextVertex(<<x1, y1>>, <<u1, v1>>, color, flags, layer),
           TextVertex(<<x0, y1>>, <<u0, v1>>, color, flags, layer) >>

(* The full-cell background rectangle of a cell.                           *)
cell_bg_rect(cell, alpha) ==
    RenderRect(cell.point.column * size_info.cell_width + size_info.padding_x,
               cell.point.line * size_info.cell_height + size_info.padding_y,
               size_info.cell_width, size_info.cell_height, cell.bg, alpha)

(* The font of a cell, by its BOLD and ITALIC flags.                       *)
font_key_of(flags) ==
    IF "BOLD" \in flags /\ "ITALIC" \in flags THEN "bold_italic_key"
    ELSE IF "ITALIC" \in flags THEN "italic_key"
    ELSE IF "BOLD" \in flags THEN "bold_key"
    ELSE "font_key"

(* staged.extend_from_slice(&build_text_vertices(..)) for the Glyph that   *)
(* the lookup r returned (lines 710-711, 722-723, 769-770).                *)
stage_glyph(acc, cell, r) ==
    [acc EXCEPT !.cache = r.cache, !.st = r.st,
                !.staged = acc.staged \o build_text_vertices(cell, r.glyph)]

(* The zero-width loop of draw_cells (lines 720-724) from character i on.  *)
RECURSIVE stage_zerowidth(_, _, _, _, _)
stage_zerowidth(zw, i, cell, font_key, acc) ==
    IF i > Len(zw) THEN acc
    ELSE stage_zerowidth(zw, i + 1, cell, font_key,
             stage_glyph(acc, cell,
                         glyph_cache_get(acc.cache, acc.st, <<font_key, zw[i]>>)))

(* A background rectangle for every cell.                                  *)
stage_bg_always(acc, cell) ==
    [acc EXCEPT !.staged_bg = Append(acc.staged_bg, cell_bg_rect(cell, cell.bg_alpha))]

(* Lines 681-693: the background rectangle of a cell with bg_alpha > 0.    *)
stage_bg(acc, cell) ==
    IF cell.bg_alpha > 0
    THEN [acc EXCEPT !.staged_bg = Append(acc.staged_bg, cell_bg_rect(cell, cell.bg_alpha))]
    ELSE acc

(* Lines 694-698: a tab or hidden cell is drawn as a space.                *)
normalize(cell) ==
    IF cell.character = "\t" \/ "HIDDEN" \in cell.flags
    THEN [cell EXCEPT !.character = " "] ELSE cell

(* Lines 713-725: the zero-width characters taken from the cell.           *)
zerowidth_of(cell) == IF "HIDDEN" \in cell.flags THEN <<>> ELSE cell.zerowidth

(* Lines 700-725 for a normalized cell: the primary glyph, then the        *)
(* zero-width characters.                                                  *)
stage_glyphs(acc, cell, font_key) ==
    stage_zerowidth(zerowidth_of(cell), 1, cell, font_key,
        stage_glyph(acc, cell,
                    glyph_cache_get(acc.cache, acc.st, <<font_key, cell.character>>)))

(* One iteration of the loop of draw_cells (lines 680-726).                *)
stage_cell(cell, acc) ==
    stage_glyphs(stage_bg(acc, cell), normalize(cell), font_key_of(cell.flags))

RECURSIVE stage_cells(_, _, _)
stage_cells(cells, i, acc) ==
    IF i > Len(cells) THEN acc
    ELSE stage_cells(cells, i + 1, stage_cell(cells[i], acc))

(* One iteration of the loop of draw_string (lines 746-772) for the i-th   *)
(* character, in column point.column + i - 1: the cell, then its solid     *)
(* background and its glyph.                                               *)
string_cell(point, fg, bg, ch, i) ==
    [point |-> [line |-> point.line, column |-> point.column + (i - 1)],
     character |-> ch, zerowidth |-> <<>>, flags |-> {},
     bg_alpha |-> 100, fg |-> fg, bg |-> bg]

stage_string_cell(acc, cell) ==
    stage_glyph([acc EXCEPT !.staged_bg = Append(acc.staged_bg, cell_bg_rect(cell, 100))],
                cell,
                glyph_cache_get(acc.cache, acc.st, <<"font_key", cell.character>>))

stage_char(point, fg, bg, ch, i, acc) ==
    stage_string_cell(acc, string_cell(point, fg, bg, ch, i))

RECURSIVE stage_string(_, _, _, _, _, _)
stage_string(point, fg, bg, chars, i, acc) ==
    IF i > Len(chars) THEN acc
    ELSE stage_string(point, fg, bg, chars, i + 1,
                      stage_char(point, fg, bg, chars[i], i, acc))

(* The staging buffers of a call, empty, over the renderer and the cache.  *)
NewStaging == [cache |-> glyph_cache, st |-> AtlasState, staged |-> <<>>, staged_bg |-> <<>>]

(* A bounded run stages no more than MaxQuads quads and MaxQuads           *)
(* background rectangles between two presented frames.                     *)
StagingFits(acc) ==
    /\ Len(pending_text) + Len(acc.staged) <= 6 * MaxQuads
    /\ Len(pending_bg) + Len(acc.staged_bg) <= MaxQuads

(* The history of a step of the frame path.                                *)
FrameStep(name) ==
    /\ op' = name
    /\ arg' = <<0, 0>>
    /\ glyph' = Placeholder
    /\ offset' = <<0, 0>>
    /\ NoResult
    /\ recover' = 0
    /\ UNCHANGED <<policy, placed, subpixel_enabled, size, proj_buffer, fragment>>
    /\ UNCHANGED host_vars

(* The end of draw_cells and draw_string (lines 728-729, 773-774): what    *)
(* was staged is appended to the pending buffers.                          *)
Staged(name, input, acc) ==
    /\ WithinBounds(acc.st)
    /\ StagingFits(acc)
    /\ draws < MaxDraws
    /\ draws' = draws + 1
    /\ Commit(acc.st)
    /\ glyph_cache' = acc.cache
    /\ pending_text' = pending_text \o acc.staged
    /\ pending_bg' = pending_bg \o acc.staged_bg
    /\ FrameStep(name)
    /\ frame' = NoFrame
    /\ drawn' = input
    /\ UNCHANGED <<atlas_evictions_count, pending_clear, configured>>

(* WgpuRenderer::draw_cells.                                               *)
DrawCells(cells) == Staged("draw_cells", cells, stage_cells(cells, 1, NewStaging))

(* WgpuRenderer::draw_string.                                              *)
DrawString(point, fg, bg, chars) ==
    Staged("draw_string", chars, stage_string(point, fg, bg, chars, 1, NewStaging))

(* Lines 526-529: the premultiplied clear colour; alpha is in hundredths   *)
(* and a channel is the exact product channel * alpha over 255 * 100.      *)
clear_color(color, alpha) ==
    << Frac(Min(color.r, 255) * alpha, 255 * 100),
       Frac(Min(color.g, 255) * alpha, 255 * 100),
       Frac(Min(color.b, 255) * alpha, 255 * 100),
       Frac(alpha, 100) >>

(* WgpuRenderer::clear.                                                    *)
Clear(color, alpha) ==
    /\ pending_clear' = clear_color(color, alpha)
    /\ FrameStep("clear_color")
    /\ frame' = NoFrame
    /\ drawn' = <<>>
    /\ UNCHANGED <<atlas_pages, page_meta, current_page, use_clock, pending_eviction,
                   atlas_inserts, atlas_insert_misses, atlas_evictions_count,
                   atlas_evicted, pending_text, pending_bg, glyph_cache, draws,
                   configured>>

(* What the surface answers in one draw_rects: create_surface fails, or    *)
(* get_current_texture answers, with the answer of the retry after         *)
(* Outdated and Lost.                                                      *)
SurfaceOutcomes ==
    { <<"CreateErr">>, <<"Ok">>, <<"OutOfMemory">>, <<"Timeout">>,
      <<"Outdated", "Ok">>, <<"Outdated", "Err">>, <<"Lost", "Ok">>, <<"Lost", "Err">> }

(* Lines 544-546: the size draw_rects configures the new surface with.     *)
config_size(sz) == [width |-> Max(sz.width, 1), height |-> Max(sz.height, 1)]

(* A call on the instance or the surface and what it answered.             *)
SurfaceCall(call, answer) == [call |-> call, answer |-> answer]

(* An acquisition that retries after every error of get_current_texture.   *)
acquire_retry_all(outcome) ==
    IF outcome[1] = "CreateErr"
    THEN [acquired |-> FALSE, attempts |-> 0, configures |-> 0,
          surface |-> <<SurfaceCall("create_surface", "Err")>>]
    ELSE IF outcome[1] = "Ok"
    THEN [acquired |-> TRUE, attempts |-> 1, configures |-> 1,
          surface |-> <<SurfaceCall("create_surface", "Ok"),
                        SurfaceCall("configure", "-"),
                        SurfaceCall("get_current_texture", "Ok")>>]
    ELSE [acquired |-> Len(outcome) > 1 /\ outcome[2] = "Ok",
          attempts |-> 2, configures |-> 2,
          surface |-> <<SurfaceCall("create_surface", "Ok"),
                        SurfaceCall("configure", "-"),
                        SurfaceCall("get_current_texture", outcome[1]),
                        SurfaceCall("configure", "-"),
                        SurfaceCall("get_current_texture",
                                    IF Len(outcome) > 1 THEN outcome[2] ELSE "Err")>>]

(* Lines 539-564 of draw_rects: whether a frame was acquired, how many     *)
(* get_current_texture and configure calls were made, and the calls in     *)
(* order with their answers.                                               *)
acquire(outcome) ==
    IF outcome[1] = "CreateErr"
    THEN [acquired |-> FALSE, attempts |-> 0, configures |-> 0,
          surface |-> <<SurfaceCall("create_surface", "Err")>>]
    ELSE IF outcome[1] = "Ok"
    THEN [acquired |-> TRUE, attempts |-> 1, configures |-> 1,
          surface |-> <<SurfaceCall("create_surface", "Ok"),
                        SurfaceCall("configure", "-"),
                        SurfaceCall("get_current_texture", "Ok")>>]
    ELSE IF outcome[1] \in {"Outdated", "Lost"}
    THEN [acquired |-> outcome[2] = "Ok", attempts |-> 2, configures |-> 2,
          surface |-> <<SurfaceCall("create_surface", "Ok"),
                        SurfaceCall("configure", "-"),
                        SurfaceCall("get_current_texture", outcome[1]),
                        SurfaceCall("configure", "-"),
                        SurfaceCall("get_current_texture", outcome[2])>>]
    ELSE [acquired |-> FALSE, attempts |-> 1, configures |-> 1,
          surface |-> <<SurfaceCall("create_surface", "Ok"),
                        SurfaceCall("configure", "-"),
                        SurfaceCall("get_current_texture", outcome[1])>>]

(* (alpha.clamp(0.0, 1.0) * 255.0).round() as u8, alpha in hundredths.     *)
alpha_u8(alpha) ==
    LET clamped == IF alpha < 0 THEN 0 ELSE Min(alpha, 100)
    IN  (2 * clamped * 255 + 100) \div 200

RectVertex(pos, color) == [pos |-> pos, color |-> color]

(* Vertices whose y grows downwards, as in pixel space.                    *)
rect_vertices_y_down(rect) ==
    LET W == size_info.width
        H == size_info.height
        x == Frac(2 * rect.x - W, W)
        y == Frac(2 * rect.y - H, H)
        xw == Frac(2 * rect.x - W + 2 * rect.width, W)
        yh == Frac(2 * rect.y - H + 2 * rect.height, H)
        color == <<rect.color.r, rect.color.g, rect.color.b, alpha_u8(rect.alpha)>>
        v0 == RectVertex(<<x, y>>, color)
        v1 == RectVertex(<<x, yh>>, color)
        v2 == RectVertex(<<xw, y>>, color)
        v3 == RectVertex(<<xw, yh>>, color)
    IN  <<v0, v1, v2, v2, v3, v1>>

(* The six vertices of one rectangle in NDC (lines 577-591).               *)
rect_vertices(rect) ==
    LET W == size_info.width
        H == size_info.height
        x == Frac(2 * rect.x - W, W)
        y == Frac(H - 2 * rect.y, H)
        xw == Frac(2 * rect.x - W + 2 * rect.width, W)
        yh == Frac(H - 2 * rect.y - 2 * rect.height, H)
        color == <<rect.color.r, rect.color.g, rect.color.b, alpha_u8(rect.alpha)>>
        v0 == RectVertex(<<x, y>>, color)
        v1 == RectVertex(<<x, yh>>, color)
        v2 == RectVertex(<<xw, y>>, color)
        v3 == RectVertex(<<xw, yh>>, color)
    IN  <<v0, v1, v2, v2, v3, v1>>

RECURSIVE all_vertices(_, _)
all_vertices(rects, i) ==
    IF i > Len(rects) THEN <<>>
    ELSE rect_vertices(rects[i]) \o all_vertices(rects, i + 1)

(* wgpu::Color::TRANSPARENT.                                               *)
TRANSPARENT == <<Zero, Zero, Zero, Zero>>

(* The caller's rectangles ahead of the staged backgrounds.                *)
all_rects_caller_first(bg, rects_in) == rects_in \o bg

(* Lines 572-574: the staged backgrounds, then the caller's rectangles.    *)
all_rects(bg, rects_in) == bg \o rects_in

(* Lines 599-604: the colour the rectangle pass clears with.               *)
clear_value(pc) == IF pc # NoClear THEN pc ELSE TRANSPARENT

(* A pending clear colour that is read and left in place.                  *)
clear_peeked(pc) == pc

(* Line 600: pending_clear after the rectangle pass read it.               *)
clear_taken(pc) == NoClear

(* pending_text left as it is after the text pass.                         *)
text_kept(pt) == pt

(* Lines 636-663: pending_text after the text pass, which runs and clears  *)
(* the buffer only if it is not empty.                                     *)
text_drawn(pt) == IF pt # <<>> THEN <<>> ELSE pt

Event(ev, load) == [ev |-> ev, load |-> load]

(* Lines 615-666: what the encoder and the frame are asked to do, in       *)
(* order: the render passes with their load operations, submit, present.   *)
frame_log(pt) ==
    <<Event("rects-pass", "Clear")>>
    \o (IF pt # <<>> THEN <<Event("text-pass", "Load")>> ELSE <<>>)
    \o <<Event("submit", "-"), Event("present", "-")>>

(* A draw_rects that takes the staged buffers and the clear colour before  *)
(* it asks the surface for a frame.                                        *)
DrawRects_take_first(outcome, rects_in) ==
    LET a == acquire(outcome)
    IN  /\ pending_bg' = <<>>
        /\ pending_clear' = clear_taken(pending_clear)
        /\ pending_text' = text_drawn(pending_text)
        /\ frame' = IF a.acquired
                    THEN [presented |-> TRUE, attempts |-> a.attempts,
                          configures |-> a.configures,
                          clear |-> clear_value(pending_clear),
                          rects |-> all_vertices(all_rects(pending_bg, rects_in), 1),
                          text |-> pending_text,
                          log |-> frame_log(pending_text),
                          surface |-> a.surface]
                    ELSE [presented |-> FALSE, attempts |-> a.attempts,
                          configures |-> a.configures,
                          clear |-> <<>>, rects |-> <<>>, text |-> <<>>,
                          log |-> <<>>, surface |-> a.surface]
        /\ FrameStep("draw_rects")
        /\ drawn' = <<>>
        /\ configured' = IF a.configures > 0 THEN config_size(size) ELSE configured
        /\ UNCHANGED <<atlas_pages, page_meta, current_page, use_clock, pending_eviction,
                       atlas_inserts, atlas_insert_misses, atlas_evictions_count,
                       atlas_evicted, glyph_cache, draws>>

(* WgpuRenderer::draw_rects.                                               *)
DrawRects(outcome, rects_in) ==
    LET a == acquire(outcome)
    IN  /\ IF a.acquired
           THEN /\ pending_bg' = <<>>
                /\ pending_clear' = clear_taken(pending_clear)
                /\ pending_text' = text_drawn(pending_text)
                /\ frame' = [presented |-> TRUE, attempts |-> a.attempts,
                             configures |-> a.configures,
                             clear |-> clear_value(pending_clear),
                             rects |-> all_vertices(all_rects(pending_bg, rects_in), 1),
                             text |-> pending_text,
                             log |-> frame_log(pending_text),
                             surface |-> a.surface]
           ELSE /\ UNCHANGED <<pending_bg, pending_clear, pending_text>>
                /\ frame' = [presented |-> FALSE, attempts |-> a.attempts,
                             configures |-> a.configures,
                             clear |-> <<>>, rects |-> <<>>, text |-> <<>>,
                             log |-> <<>>, surface |-> a.surface]
        /\ FrameStep("draw_rects")
        /\ drawn' = <<>>
        /\ configured' = IF a.configures > 0 THEN config_size(size) ELSE configured
        /\ UNCHANGED <<atlas_pages, page_meta, current_page, use_clock, pending_eviction,
                       atlas_inserts, atlas_insert_misses, atlas_evictions_count,
                       atlas_evicted, glyph_cache, draws>>

RenderableCell(line, column, character, zerowidth, flags, bg_alpha) ==
    [point |-> [line |-> line, column |-> column], character |-> character,
     zerowidth |-> zerowidth, flags |-> flags, bg_alpha |-> bg_alpha,
     fg |-> White, bg |-> Red]

(* The cells of a run: a plain cell, one whose glyph fills a page, and a   *)
(* tab that carries a zero-width character.                                *)
CellA == RenderableCell(0, 0, "a", <<>>, {}, 0)

CellM == RenderableCell(0, 1, "M", <<>>, {}, 100)

CellTab == RenderableCell(1, 0, "\t", <<"z">>, {}, 0)

(* The cell iterators handed to draw_cells.                                *)
CellSeqs == { <<CellA>>, <<CellM>>, <<CellTab>>, <<CellA, CellM>> }

Strings == { <<"a", "M">> }

(* The rectangles handed to draw_rects; a call whose frame is dropped      *)
(* never reads them, so it is made with none.                              *)
RectsIn == { <<>>, <<RenderRect(0, 0, size_info.width, size_info.height, White, 150)>> }

(* The glyphs the host loads without the cache.                            *)
DirectLoads == { rasterize(<<"font_key", "M">>) }

(* The colours and alphas handed to clear.                                 *)
ClearColors == { <<Red, 50>> }

(* One outcome of each kind: no surface, a frame at once, a frame dropped  *)
(* at once, a retry that gets a frame and a retry that fails.              *)
FrameOutcomes ==
    { <<"CreateErr">>, <<"Ok">>, <<"Timeout">>, <<"Outdated", "Ok">>, <<"Lost", "Err">> }

NextFrame ==
    \/ \E rz \in DirectLoads : LoadGlyph(rz)
    \/ \E cells \in CellSeqs : DrawCells(cells)
    \/ \E chars \in Strings : DrawString([line |-> 0, column |-> 0], Red, White, chars)
    \/ \E outcome \in FrameOutcomes :
          \E rects_in \in (IF acquire(outcome).acquired THEN RectsIn ELSE {<<>>}) :
              DrawRects(outcome, rects_in)
    \/ \E c \in ClearColors : Clear(c[1], c[2])
    \/ TakeAtlasEvicted
    \/ EvictOnePage

InitFrame == Init /\ policy = "LruMinOccupancy"

SpecFrame == InitFrame /\ [][NextFrame]_vars

(* ----------------- draw_cells over cells of every kind ----------------- *)

CellBoldM == RenderableCell(0, 2, "M", <<>>, {"BOLD"}, 0)

CellE == RenderableCell(1, 1, "e", <<>>, {}, 0)

CellHidden == RenderableCell(1, 2, "x", <<"z">>, {"HIDDEN"}, 50)

CellZw == RenderableCell(1, 1, "a", <<"z">>, {"ITALIC"}, 0)

(* The cell iterators handed to draw_cells: the second run stages a glyph  *)
(* that fits on no page ahead of one that does.                            *)
CellRuns ==
    { <<CellA, CellM>>, <<CellBoldM, CellE>>, <<CellM>>, <<CellTab>>, <<CellHidden>>,
      <<CellZw>> }

SubpixelPreference == {"Enabled", "Disabled", "Auto"}

InitCells ==
    /\ atlas_pages = [l \in Layers |-> WgpuAtlas_new(ATLAS_SIZE)]
    /\ InitCore
    /\ policy = "LruMinOccupancy"
    /\ \E subpixel_pref \in SubpixelPreference, is_srgb_surface \in BOOLEAN :
          subpixel_enabled = resolve_subpixel(subpixel_pref, is_srgb_surface)

NextCells ==
    \/ \E cells \in CellRuns : DrawCells(cells)
    \/ \E rects_in \in {<<>>} : DrawRects(<<"Ok">>, rects_in)

SpecCells == InitCells /\ [][NextCells]_vars

(* ------------------------- Resizing the window ------------------------- *)

(* What resize leaves alone besides the atlas and the surface.             *)
ResizeKeeps ==
    /\ op' = "resize"
    /\ glyph' = Placeholder /\ offset' = <<0, 0>> /\ frame' = NoFrame /\ drawn' = <<>>
    /\ NoResult
    /\ recover' = 0
    /\ UNCHANGED <<policy, placed, subpixel_enabled, pending_text, pending_bg,
                   pending_clear, glyph_cache, draws, fragment>>
    /\ UNCHANGED host_vars

(* A resize that configures the surface at once.                           *)
ResizeConfigures(width, height) ==
    /\ size' = PhysicalSize(width, height)
    /\ proj_buffer' = projection_from_size(PhysicalSize(width, height))
    /\ configured' = config_size(PhysicalSize(width, height))
    /\ arg' = <<width, height>>
    /\ ResizeKeeps
    /\ UNCHANGED <<atlas_pages, page_meta, current_page, use_clock, pending_eviction,
                   atlas_inserts, atlas_insert_misses, atlas_evictions_count,
                   atlas_evicted>>

(* A resize that clears the pages of the atlas.                            *)
ResizeClearsAtlas(width, height) ==
    /\ size' = PhysicalSize(width, height)
    /\ proj_buffer' = projection_from_size(PhysicalSize(width, height))
    /\ arg' = <<width, height>>
    /\ ResizeKeeps
    /\ atlas_pages' = [l \in Layers |-> WgpuAtlas_clear(atlas_pages[l])]
    /\ UNCHANGED <<configured, page_meta, current_page, use_clock, pending_eviction,
                   atlas_inserts, atlas_insert_misses, atlas_evictions_count,
                   atlas_evicted>>

(* WgpuRenderer::resize for a SizeInfo of the given width and height.      *)
Resize(width, height) ==
    /\ size' = PhysicalSize(width, height)
    /\ proj_buffer' = projection_from_size(PhysicalSize(width, height))
    /\ arg' = <<width, height>>
    /\ ResizeKeeps
    /\ UNCHANGED <<configured, atlas_pages, page_meta, current_page, use_clock,
                   pending_eviction, atlas_inserts, atlas_insert_misses,
                   atlas_evictions_count, atlas_evicted>>

(* The sizes a window is resized to; a minimised window has size 0 x 0.    *)
WindowSizes == { <<800, 600>>, <<4, 2>>, <<0, 0>> }

ResizeLoads == { rasterize(<<"font_key", "M">>), rasterize(<<"font_key", "a">>) }

NextResize ==
    \/ \E sz \in WindowSizes : Resize(sz[1], sz[2])
    \/ \E rz \in ResizeLoads : LoadGlyph(rz)
    \/ EvictOnePage
    \/ ResetAtlas
    \/ \E outcome \in {<<"Ok">>, <<"CreateErr">>} : DrawRects(outcome, <<>>)

SpecResize == Init /\ [][NextResize]_vars

(* ------------------ A texel from the bitmap to the target -------------- *)

(* Lines 962-973: the RGBA8 texel load_glyph uploads for one pixel of the  *)
(* bitmap; an Rgb pixel keeps its red channel, as alpha.                   *)
upload_texel(buffer, px) ==
    IF buffer = "Rgba" THEN px ELSE <<0, 0, 0, px[1]>>

Max3(a, b, c) == Max(a, Max(b, c))

(* fs_main: channels are in 0 .. 255 and stand for n / 255; a product of   *)
(* two of them is kept over 255 * 255.                                     *)
fs_main(sample, color, flags) ==
    LET is_colored == flags % 2 = 1
        is_subpixel == (flags \div 2) % 2 = 1
    IN  IF is_colored
        THEN <<Frac(sample[1], 255), Frac(sample[2], 255), Frac(sample[3], 255),
               Frac(sample[4], 255)>>
        ELSE IF is_subpixel
        THEN <<Frac(color[1] * sample[1], 255 * 255),
               Frac(color[2] * sample[2], 255 * 255),
               Frac(color[3] * sample[3], 255 * 255),
               Frac(Max3(sample[1], sample[2], sample[3]) * color[4], 255 * 255)>>
        ELSE <<Frac(color[1], 255), Frac(color[2], 255), Frac(color[3], 255),
               Frac(sample[4] * color[4], 255 * 255)>>

(* One fragment of a glyph quad: the pixel px of a bitmap as load_glyph    *)
(* uploads it, sampled and shaded with the colour and the flags that       *)
(* build_text_vertices gives the quad of a cell with foreground fg.        *)
Shade(buffer, px, fg, subpixel) ==
    LET sample == upload_texel(buffer, px)
        color == <<fg.r, fg.g, fg.b, 255>>
        flags == vertex_flags([multicolor |-> buffer = "Rgba"], subpixel)
    IN  /\ fragment' = [buffer |-> buffer, source |-> px, sample |-> sample,
                        color |-> color, flags |-> flags,
                        out |-> fs_main(sample, color, flags)]
        /\ op' = "fs_main"
        /\ NoReturn
        /\ NoResult
        /\ recover' = 0
        /\ UNCHANGED <<atlas_pages, page_meta, current_page, use_clock, pending_eviction,
                       policy, atlas_inserts, atlas_insert_misses, atlas_evictions_count,
                       atlas_evicted, placed, subpixel_enabled, pending_text, pending_bg,
                       pending_clear, glyph_cache, draws, size, proj_buffer, configured>>
        /\ UNCHANGED host_vars

Channels == {0, 128, 255}

RgbPixels == Channels \X Channels \X Channels

RgbaPixels == { <<255, 128, 0, 255>>, <<0, 0, 0, 0>>, <<0, 128, 255, 128>> }

NextShade ==
    \/ \E px \in RgbPixels, fg \in {White, Red}, subpixel \in BOOLEAN :
          Shade("Rgb", px, fg, subpixel)
    \/ \E px \in RgbaPixels, fg \in {White, Red}, subpixel \in BOOLEAN :
          Shade("Rgba", px, fg, subpixel)

SpecShade == Init /\ [][NextShade]_vars

(* ------------- Frames under every answer of the surface ---------------- *)

NextSurface ==
    \/ \E cells \in {<<CellM>>, <<CellA>>} : DrawCells(cells)
    \/ \E outcome \in SurfaceOutcomes :
          \E rects_in \in (IF acquire(outcome).acquired THEN RectsIn ELSE {<<>>}) :
              DrawRects(outcome, rects_in)
    \/ \E c \in ClearColors : Clear(c[1], c[2])

SpecSurface == InitFrame /\ [][NextSurface]_vars

(* ------------- The status file of the local sync provider -------------- *)
(* openagent-terminal-sync/src/local_fs.rs.  A file is the string of its   *)
(* bytes.                                                                  *)

(* Option<u64>::None of last_push and last_pull.                           *)
NoTime == -1

(* The timestamps of a run: the epoch, a second with one digit and the     *)
(* second of the repository's test.                                        *)
Timestamps == {0, 7, 1234567890}

SyncStatus(last_push, last_pull, pending) ==
    [last_push |-> last_push, last_pull |-> last_pull, pending |-> pending]

(* SyncStatus::default().                                                  *)
SyncStatus_default == SyncStatus(NoTime, NoTime, FALSE)

SyncStatuses ==
    { SyncStatus(a, b, p) : a \in Timestamps \cup {NoTime},
                            b \in Timestamps \cup {NoTime}, p \in BOOLEAN }

Digit(d) == SubSeq("0123456789", d + 1, d + 1)

(* u64::to_string: the decimal digits, most significant first.             *)
RECURSIVE to_string(_)
to_string(t) == IF t < 10 THEN Digit(t) ELSE to_string(t \div 10) \o Digit(t % 10)

(* Option::map_or("null", to_string) of write_status.                      *)
map_or_null(t) == IF t = NoTime THEN "null" ELSE to_string(t)

(* The format! of write_status (lines 101-106).                            *)
format_status(status) ==
    "{\n  \"last_push\": " \o map_or_null(status.last_push)
    \o ",\n  \"last_pull\": " \o map_or_null(status.last_pull)
    \o ",\n  \"pending\": " \o (IF status.pending THEN "true" ELSE "false") \o "\n}\n"

(* The byte offsets at which pat occurs in content.                        *)
Occurrences(content, pat) ==
    { i \in 0 .. (Len(content) - Len(pat)) : SubSeq(content, i + 1, i + Len(pat)) = pat }

(* str::find: the first offset of pat in content, or NotFound.             *)
NotFound == -1

find(content, pat) ==
    LET occ == Occurrences(content, pat)
    IN  IF occ = {} THEN NotFound ELSE CHOOSE i \in occ : \A j \in occ : i <= j

contains(content, pat) == Occurrences(content, pat) # {}

(* split(',').next(): the text before the first comma, or all of it.       *)
split_comma_first(text) ==
    LET c == find(text, ",")
    IN  IF c = NotFound THEN text ELSE SubSeq(text, 1, c)

(* str::trim.                                                              *)
trim(text) ==
    LET inked == { i \in 1 .. Len(text) :
                       SubSeq(text, i, i) \notin {" ", "\n", "\t", "\r"} }
    IN  IF inked = {} THEN ""
        ELSE SubSeq(text, CHOOSE i \in inked : \A j \in inked : i <= j,
                          CHOOSE i \in inked : \A j \in inked : i >= j)

(* The value of the digits text[i..], behind the value acc of the digits   *)
(* before them; ParseErr for a character that is no digit and for a value  *)
(* above u64::MAX.                                                         *)
ParseErr == -1

RECURSIVE parse_digits(_, _, _)
parse_digits(text, i, acc) ==
    IF i > Len(text) THEN acc
    ELSE LET ds == { d \in 0 .. 9 : Digit(d) = SubSeq(text, i, i) }
         IN  IF ds = {} THEN ParseErr
             ELSE LET d == CHOOSE x \in ds : TRUE
                  IN  IF acc > (U64_MAX - d) \div 10 THEN ParseErr
                      ELSE parse_digits(text, i + 1, acc * 10 + d)

(* str::parse::<u64>: digits behind an optional plus sign.                 *)
parse_u64(text) ==
    LET digits == IF Len(text) > 0 /\ SubSeq(text, 1, 1) = "+"
                  THEN SubSeq(text, 2, Len(text)) ELSE text
    IN  IF Len(digits) = 0 THEN ParseErr ELSE parse_digits(digits, 1, 0)

(* Lines 74-80 and 82-88: the field behind `key`, if the key is found and  *)
(* the text up to the next comma parses as a u64.                          *)
read_timestamp(content, key) ==
    LET pos == find(content, key)
    IN  IF pos = NotFound THEN NoTime
        ELSE LET rest == SubSeq(content, pos + 12 + 1, Len(content))
                 t == parse_u64(trim(split_comma_first(rest)))
             IN  IF t = ParseErr THEN NoTime ELSE t

(* LocalFsProvider::read_status on the file `file`.                        *)
read_status(file) ==
    IF ~file.exists THEN SyncStatus_default
    ELSE SyncStatus(read_timestamp(file.content, "\"last_push\":"),
                    read_timestamp(file.content, "\"last_pull\":"),
                    contains(file.content, "\"pending\":true"))

(* The renderer and its history are left alone by the provider and the     *)
(* palette.                                                                *)
HostStep(name) ==
    /\ op' = name
    /\ UNCHANGED <<atlas_pages, page_meta, current_page, use_clock, pending_eviction,
                   policy, atlas_inserts, atlas_insert_misses, atlas_evictions_count,
                   atlas_evicted, glyph, offset, placed, recover, frame, drawn>>
    /\ UNCHANGED frame_vars

(* LocalFsProvider::write_status.                                          *)
WriteStatus(status) ==
    /\ status_file' = [exists |-> TRUE, content |-> format_status(status)]
    /\ arg' = status
    /\ HostStep("write_status")
    /\ UNCHANGED <<result, palette>>

(* SyncProvider::status of LocalFsProvider.                                *)
Status ==
    /\ result' = read_status(status_file)
    /\ HostStep("status")
    /\ UNCHANGED <<arg, status_file, palette>>

NextSync ==
    \/ \E status \in SyncStatuses : WriteStatus(status)
    \/ Status

SpecSync == Init /\ [][NextSync]_vars

(* -------------------------- The command palette ------------------------- *)
(* openagent-terminal/src/display/palette.rs.                              *)

(* The longest filter a run types with push_filter_char, and the longest   *)
(* move of the selection.                                                  *)
MaxFilter == 3
MaxDelta == 3

(* Option<String> of PaletteItem::subtitle: Some(text) or None.            *)
Subtitle(some, text) == [some |-> some, text |-> text]

PaletteEntry(kind, name) == [kind |-> kind, name |-> name]

PaletteItem(title, subtitle, entry) ==
    [title |-> title, subtitle |-> subtitle, entry |-> entry]

(* char::to_lowercase on ASCII.                                            *)
lower_char(c) ==
    LET up == { i \in 1 .. 26 : SubSeq("ABCDEFGHIJKLMNOPQRSTUVWXYZ", i, i) = c }
    IN  IF up = {} THEN c
        ELSE LET i == CHOOSE x \in up : TRUE
             IN  SubSeq("abcdefghijklmnopqrstuvwxyz", i, i)

(* str::to_lowercase.                                                      *)
RECURSIVE to_lowercase(_)
to_lowercase(text) ==
    IF Len(text) = 0 THEN ""
    ELSE lower_char(SubSeq(text, 1, 1)) \o to_lowercase(SubSeq(text, 2, Len(text)))

starts_with(text, prefix) ==
    Len(text) >= Len(prefix) /\ SubSeq(text, 1, Len(prefix)) = prefix

(* splitn(2, ':').nth(1).unwrap_or(""): the text behind the first colon.   *)
after_colon(q) ==
    LET c == find(q, ":")
    IN  IF c = NotFound THEN "" ELSE SubSeq(q, c + 2, Len(q))

(* Lines 82-88: the kind the filter asks for and the term it searches.     *)
filter_type(q) ==
    IF starts_with(q, "w:") \/ starts_with(q, "workflows:") THEN "workflow"
    ELSE IF starts_with(q, "a:") \/ starts_with(q, "actions:") THEN "action"
    ELSE "none"

filter_term(q) == IF filter_type(q) = "none" THEN q ELSE trim(after_colon(q))

(* Line 105: the text an item is searched in.                              *)
hay(it) ==
    to_lowercase(it.title) \o " "
    \o to_lowercase(IF it.subtitle.some THEN it.subtitle.text ELSE "")

(* Lines 92-108: the item passes the filter of kind ft and term `term`.    *)
passes(it, ft, term) ==
    /\ ft = "none" \/ (it.entry.kind = "Action" /\ ft = "action")
                   \/ (it.entry.kind = "Workflow" /\ ft = "workflow")
    /\ term = "" \/ contains(hay(it), term)

(* usize::saturating_sub.                                                  *)
saturating_sub(a, b) == IF a < b THEN 0 ELSE a - b

(* Lines 90-109: the indices, from 0, of the items that pass.              *)
filter_indices(items, ft, term) ==
    SelectSeq([i \in 1 .. Len(items) |-> i - 1], LAMBDA i : passes(items[i + 1], ft, term))

(* PaletteState::refilter: the filtered indices (lines 80-109) and the     *)
(* selection limited to them (line 110).                                   *)
refilter(p) ==
    LET indices == filter_indices(p.items, filter_type(to_lowercase(p.filter)),
                                  filter_term(to_lowercase(p.filter)))
    IN  [p EXCEPT !.filtered_indices = indices,
                  !.selected = IF p.selected >= Len(indices)
                               THEN saturating_sub(Len(indices), 1) ELSE p.selected]

(* A move that goes round the ends of the list.                            *)
move_selection_wrap(p, delta) ==
    IF Len(p.filtered_indices) = 0 THEN [p EXCEPT !.selected = 0]
    ELSE [p EXCEPT !.selected = (p.selected + delta) % Len(p.filtered_indices)]

(* PaletteState::move_selection.                                           *)
move_selection(p, delta) ==
    IF Len(p.filtered_indices) = 0 THEN [p EXCEPT !.selected = 0]
    ELSE LET len == Len(p.filtered_indices)
             idx == p.selected + delta
         IN  [p EXCEPT !.selected = IF idx < 0 THEN 0
                                    ELSE IF idx >= len THEN len - 1 ELSE idx]

(* PaletteState::selected_entry: <<entry>> for Some, <<>> for None.        *)
selected_entry(p) ==
    IF p.selected >= Len(p.filtered_indices) THEN <<>>
    ELSE LET i == p.filtered_indices[p.selected + 1]
         IN  IF i >= Len(p.items) THEN <<>> ELSE <<p.items[i + 1].entry>>

(* One call on the palette that leaves it as q.                            *)
PaletteStep(name, a, q) ==
    /\ palette' = q
    /\ arg' = a
    /\ HostStep(name)
    /\ UNCHANGED <<result, status_file>>

(* PaletteState::open.                                                     *)
Open(items) ==
    PaletteStep("open", <<Len(items), 0>>,
                refilter([palette EXCEPT !.items = items, !.filter = "", !.selected = 0,
                                         !.active = TRUE]))

(* PaletteState::close.                                                    *)
Close == PaletteStep("close", <<0, 0>>, [palette EXCEPT !.active = FALSE])

(* PaletteState::set_filter.                                               *)
SetFilter(filter) ==
    PaletteStep("set_filter", <<Len(filter), 0>>, refilter([palette EXCEPT !.filter = filter]))

(* PaletteState::push_filter_char.                                         *)
PushFilterChar(ch) ==
    /\ Len(palette.filter) < MaxFilter
    /\ PaletteStep("push_filter_char", <<0, 0>>,
                   refilter([palette EXCEPT !.filter = palette.filter \o ch]))

(* PaletteState::pop_filter_char: String::pop drops the last character, if *)
(* there is one.                                                           *)
PopFilterChar ==
    PaletteStep("pop_filter_char", <<0, 0>>,
                refilter([palette EXCEPT !.filter =
                              SubSeq(palette.filter, 1,
                                     saturating_sub(Len(palette.filter), 1))]))

MoveSelection(delta) ==
    PaletteStep("move_selection", <<delta, 0>>, move_selection(palette, delta))

(* The item lists handed to open: none, one action, and two actions round  *)
(* a workflow with a subtitle.                                             *)
ItemLists ==
    { <<>>,
      <<PaletteItem("Copy", Subtitle(FALSE, ""), PaletteEntry("Action", "Copy"))>>,
      <<PaletteItem("Wa", Subtitle(FALSE, ""), PaletteEntry("Action", "Copy")),
        PaletteItem("b", Subtitle(TRUE, "A:w"), PaletteEntry("Workflow", "deploy")),
        PaletteItem("Ab", Subtitle(FALSE, ""), PaletteEntry("Action", "Paste"))>> }

(* The filters handed to set_filter and the characters typed.              *)
FilterTexts == { "", "zz", "Actions: B", "workflows:" }

FilterChars == { "a", "W", ":", " " }

(* One step up and down, and a move longer than every list of the run.    *)
Deltas == { -MaxDelta, -1, 1, MaxDelta }

NextPalette ==
    \/ \E items \in ItemLists : Open(items)
    \/ Close
    \/ \E filter \in FilterTexts : SetFilter(filter)
    \/ \E ch \in FilterChars : PushFilterChar(ch)
    \/ PopFilterChar
    \/ \E delta \in Deltas : MoveSelection(delta)

SpecPalette == Init /\ [][NextPalette]_vars

(* ------------------------------ Properties ----------------------------- *)

InPage(r, p) ==
    /\ 0 <= r.x
    /\ 0 <= r.y
    /\ r.x + r.w <= p.width
    /\ r.y + r.h <= p.height

(* Two rectangles [x, x+w) x [y, y+h) share a pixel.                       *)
Overlap(a, b) ==
    /\ a.w > 0 /\ a.h > 0 /\ b.w > 0 /\ b.h > 0
    /\ a.x < b.x + b.w /\ b.x < a.x + a.w
    /\ a.y < b.y + b.h /\ b.y < a.y + a.h

IsMiss == op = "load_glyph" /\ glyph.tex_id = 0

(* C1 (P1, packing correctness): every insert on a page that returns       *)
(* (x, y) returns a rectangle inside the page that overlaps none of the    *)
(* rectangles returned on that page since its last clear.                  *)
C1_PackingCorrect ==
    [][(op' = "insert" /\ result') =>
          LET r == Rect(offset'[1], offset'[2], arg'[1], arg'[2])
          IN  /\ InPage(r, atlas_pages'[0])
              /\ \A q \in placed : ~Overlap(q, r)]_vars

(* Three non-empty rectangles were handed out on one page, on two shelves. *)
C1_Witness ==
    /\ op = "insert" /\ result
    /\ Cardinality(placed) >= 3
    /\ \E a, b \in placed : a.y # b.y

(* The allocator cursor of page q is at or after that of page p: no       *)
(* rectangle p handed out can be handed out again by q.                    *)
CursorKept(p, q) ==
    \/ q.row_baseline > p.row_baseline
    \/ q.row_baseline = p.row_baseline /\ q.row_extent >= p.row_extent

(* C2 (eviction strictly deferred): a step of load_glyph, draw_cells,      *)
(* draw_string or draw_rects (or any step other than evict_one_page,       *)
(* reset_atlas and the loader's clear) never resets the used_area or the   *)
(* last_use of a page to zero and never moves the allocator of a page      *)
(* back, so every page, the victim of a miss included, keeps its           *)
(* allocations until one of those three is called.                         *)
C2_EvictionDeferred ==
    [][op' \notin {"evict_one_page", "reset_atlas", "clear"} =>
          \A l \in Layers :
              /\ atlas_pages'[l].used_area >= atlas_pages[l].used_area
              /\ page_meta[l].last_use > 0 => page_meta'[l].last_use > 0
              /\ CursorKept(atlas_pages[l], atlas_pages'[l])]_vars

(* A frame was presented after a draw call missed (the placeholder is in   *)
(* the glyph cache) and before any eviction: the scheduled victim still    *)
(* holds its glyphs and its last_use.                                      *)
C2_Witness ==
    /\ op = "draw_rects" /\ frame.presented /\ frame.text # <<>>
    /\ \E k \in DOMAIN glyph_cache : glyph_cache[k].tex_id = 0
    /\ atlas_evictions_count = 0
    /\ pending_eviction # NoLayer
    /\ atlas_pages[pending_eviction].used_area > 0
    /\ page_meta[pending_eviction].last_use > 0

(* Page l is the first page, in the order current_page, current_page + 1, *)
(* ... modulo N, whose insert(w, h) succeeds.                              *)
FirstFit(l, w, h) ==
    \E i \in 0 .. (NUM_ATLAS_PAGES - 1) :
        /\ l = (current_page + i) % NUM_ATLAS_PAGES
        /\ insert(atlas_pages[l], w, h).ok
        /\ \A j \in 0 .. (i - 1) :
              ~insert(atlas_pages[(current_page + j) % NUM_ATLAS_PAGES], w, h).ok

(* C11: a successful load_glyph places the glyph on the first page, in the *)
(* order current_page, current_page + 1, ... modulo N, whose insert        *)
(* succeeds; that page becomes current_page, gets last_use = use_clock,    *)
(* which is above every last_use held and below every later one (the       *)
(* clock never goes back and every last_use is below it), gains w * h of   *)
(* used_area, and the inserts counter grows by one.                        *)
C11_SuccessfulLoad ==
    [][/\ use_clock' >= use_clock
       /\ \A l \in Layers : page_meta[l].last_use < use_clock
       /\ (op' = "load_glyph" /\ glyph'.tex_id # 0) =>
             LET page == glyph'.tex_id - 1
             IN  /\ FirstFit(page, arg'[1], arg'[2])
                 /\ current_page' = page
                 /\ page_meta'[page].last_use = use_clock
                 /\ use_clock' > use_clock
                 /\ \A l \in Layers : page_meta'[page].last_use > page_meta[l].last_use
                 /\ atlas_pages'[page].used_area =
                        atlas_pages[page].used_area + arg'[1] * arg'[2]
                 /\ atlas_inserts' = atlas_inserts + 1]_vars

(* A load landed on page 0, not on its first shelf, while the last page    *)
(* was used before it and nothing was evicted: the probe started on a      *)
(* later page and wrapped around.                                          *)
C11_Witness ==
    /\ op = "load_glyph" /\ glyph.tex_id = 1
    /\ glyph.width > 0 /\ glyph.uv_bot # Frac(0, ATLAS_SIZE)
    /\ atlas_evictions_count = 0
    /\ page_meta[NUM_ATLAS_PAGES - 1].last_use > 0
    /\ page_meta[0].last_use > page_meta[NUM_ATLAS_PAGES - 1].last_use

(* The page holds exactly the first k full-width shelves of height 4, as  *)
(* k consecutive insert(16, 4) calls on the empty page leave it.           *)
Shelves(p, k) ==
    /\ placed = {Rect(0, 4 * i, 16, 4) : i \in 0 .. (k - 1)}
    /\ p.row_baseline = (IF k = 0 THEN 0 ELSE 4 * (k - 1))
    /\ p.row_extent = (IF k = 0 THEN 0 ELSE 16)
    /\ p.row_tallest = (IF k = 0 THEN 0 ELSE 4)

(* C12, as claimed: on the 16 x 16 page that holds the first k < 4 shelves *)
(* of 16 x 4, insert(16, 4) succeeds and returns (0, 4 * k); on the page   *)
(* that holds four, it fails.                                              *)
C12_Claim_FourShelves ==
    \A k \in 0 .. 4 :
        Shelves(atlas_pages[0], k) =>
            LET r == insert(atlas_pages[0], 16, 4)
            IN  IF k < 4 THEN r.ok /\ r.x = 0 /\ r.y = 4 * k ELSE ~r.ok

(* Nothing but 8 x 8 glyphs was loaded, all of them placed, and nothing    *)
(* was evicted: every page holds rows of height 8 on baselines 0 and 8,    *)
(* and the used areas add up to 64 per insert.                             *)
RECURSIVE UsedSum(_)
UsedSum(l) == IF l < 0 THEN 0 ELSE atlas_pages[l].used_area + UsedSum(l - 1)

OnlyQuarters ==
    /\ atlas_insert_misses = 0
    /\ atlas_evictions_count = 0
    /\ UsedSum(NUM_ATLAS_PAGES - 1) = 64 * atlas_inserts
    /\ \A l \in Layers :
          /\ atlas_pages[l].row_baseline \in {0, 8}
          /\ atlas_pages[l].row_extent \in {0, 8, 16}
          /\ atlas_pages[l].row_tallest \in {0, 8}

(* C13, as claimed: with 16 x 16 pages and RoundRobin, when k 8 x 8 glyphs *)
(* were loaded one after another, the next 8 x 8 load lands on page        *)
(* k div 4 (four glyphs a page) while k < 4 * N, and the load after 4 * N  *)
(* glyphs misses and schedules page 0.                                     *)
C13_Claim_FourPerPage ==
    [][(OnlyQuarters /\ op' = "load_glyph" /\ arg' = <<8, 8>>) =>
          IF atlas_inserts < 4 * NUM_ATLAS_PAGES
          THEN glyph'.tex_id = (atlas_inserts \div 4) + 1
          ELSE glyph'.tex_id = 0 /\ pending_eviction' = 0]_vars

(* C14 (AtlasPage invariants): in every reachable state every page has    *)
(* 0 <= row_baseline + row_tallest <= height, 0 <= row_extent <= width and *)
(* used_area <= width * height.                                            *)
C14_PageInvariants ==
    \A l \in Layers :
        LET p == atlas_pages[l]
        IN  /\ 0 <= p.row_baseline + p.row_tallest
            /\ p.row_baseline + p.row_tallest <= p.height
            /\ 0 <= p.row_extent
            /\ p.row_extent <= p.width
            /\ p.used_area <= p.width * p.height

(* A page whose row reaches the right edge and whose glyphs reach as far   *)
(* down as a page allows, next to a page that was advanced to a new row.   *)
C14_Witness ==
    \E l, m \in Layers :
        /\ atlas_pages[l].row_extent = atlas_pages[l].width
        /\ atlas_pages[l].used_area = atlas_pages[l].width * (atlas_pages[l].height - 1)
        /\ atlas_pages[m].row_baseline > 0
        /\ atlas_pages[m].used_area > 0

(* The numerator of a quotient over the page size is in [0, page size].    *)
InUnit(q) == q[2] > 0 /\ 0 <= q[1] /\ q[1] <= q[2]

(* C15 (P5, UV bounds): the Glyph of a successful load_glyph has           *)
(* uv_left = ox / width, uv_bot = oy / height, uv_width = w / width and    *)
(* uv_height = h / height for the offset (ox, oy) the allocator returned,  *)
(* with uv_left >= 0, uv_bot >= 0, uv_left + uv_width <= 1 and             *)
(* uv_bot + uv_height <= 1: its pixel rectangle lies inside the page.      *)
C15_UvBounds ==
    [][(op' = "load_glyph" /\ glyph'.tex_id # 0) =>
          LET pr == probe(atlas_pages, current_page, 0, arg'[1], arg'[2])
              g == glyph'
          IN  /\ g.uv_left = Frac(pr.ox, ATLAS_SIZE)
              /\ g.uv_bot = Frac(pr.oy, ATLAS_SIZE)
              /\ g.uv_width = Frac(arg'[1], ATLAS_SIZE)
              /\ g.uv_height = Frac(arg'[2], ATLAS_SIZE)
              /\ InUnit(g.uv_left) /\ InUnit(g.uv_bot)
              /\ InUnit(FracAdd(g.uv_left, g.uv_width))
              /\ InUnit(FracAdd(g.uv_bot, g.uv_height))
              /\ InPage(Rect(pr.ox, pr.oy, arg'[1], arg'[2]), atlas_pages[pr.page])]_vars

(* A glyph was placed away from the left edge and ends on the right edge   *)
(* of its page: uv_left > 0 and uv_left + uv_width = 1.                    *)
C15_Witness ==
    /\ op = "load_glyph" /\ glyph.tex_id # 0
    /\ glyph.uv_left[1] > 0
    /\ FracAdd(glyph.uv_left, glyph.uv_width) = Frac(ATLAS_SIZE, ATLAS_SIZE)

(* C3 (P2, one pending eviction): pending_eviction is unset or one layer   *)
(* index in [0, N), in every reachable state.                              *)
C3_OnePendingEviction == pending_eviction = NoLayer \/ pending_eviction \in Layers

(* A second miss happened while an eviction of the last layer was pending. *)
C3_Witness ==
    /\ IsMiss
    /\ atlas_insert_misses >= 2
    /\ pending_eviction = NUM_ATLAS_PAGES - 1

(* C4: a load_glyph miss keeps a pending victim and sets one only when     *)
(* none was pending, raises atlas_evicted, adds one to insert_misses and   *)
(* returns the placeholder: size 0 x 0, the four UV fields 0, page index 0.*)
C4_MissProtocol ==
    [][(op' = "load_glyph" /\ ~probe(atlas_pages, current_page, 0, arg'[1], arg'[2]).chosen) =>
          /\ pending_eviction # NoLayer => pending_eviction' = pending_eviction
          /\ pending_eviction = NoLayer =>
                pending_eviction' =
                    select_victim(policy, atlas_pages', page_meta, current_page)
          /\ atlas_evicted'
          /\ atlas_insert_misses' = atlas_insert_misses + 1
          /\ glyph'.tex_id = 0
          /\ glyph'.width = 0 /\ glyph'.height = 0
          /\ glyph'.uv_left = Zero /\ glyph'.uv_bot = Zero
          /\ glyph'.uv_width = Zero /\ glyph'.uv_height = Zero]_vars

(* A miss kept a pending victim that differs from the victim the policy    *)
(* would choose now.                                                       *)
C4_Witness ==
    /\ IsMiss
    /\ pending_eviction # NoLayer
    /\ pending_eviction # select_victim(policy, atlas_pages, page_meta, current_page)

(* C5 (P7, placeholder determinism), as claimed: load_glyph of a glyph     *)
(* wider or higher than a page returns the placeholder, leaves             *)
(* pending_eviction as it was and does not raise atlas_evicted.            *)
C5_Claim_TooLargeSchedulesNothing ==
    [][(op' = "load_glyph" /\ (arg'[1] > ATLAS_SIZE \/ arg'[2] > ATLAS_SIZE)) =>
          /\ glyph'.tex_id = 0 /\ glyph'.width = 0 /\ glyph'.height = 0
          /\ pending_eviction' = pending_eviction
          /\ (~atlas_evicted => ~atlas_evicted')]_vars

(* C6, as claimed: when a glyph no larger than a page missed and           *)
(* evict_one_page was called next, the next load_glyph of the same size    *)
(* returns a real glyph.                                                   *)
C6_Claim_RecoveredAfterEviction ==
    [][(recover = 2 /\ op' = "load_glyph" /\ arg' = arg
          /\ arg[1] <= ATLAS_SIZE /\ arg[2] <= ATLAS_SIZE) =>
          glyph'.tex_id # 0]_vars

AllocatorEmpty(p) ==
    p.row_extent = 0 /\ p.row_baseline = 0 /\ p.row_tallest = 0 /\ p.used_area = 0

(* C7: evict_one_page returns true iff an eviction was pending; then the   *)
(* eviction is consumed, the victim page is empty with last_use 0,         *)
(* current_page is the victim and evictions grew by one; when it returns   *)
(* false nothing changes; a call right after another returns false.        *)
C7_EvictOnePage ==
    [][op' = "evict_one_page" =>
          /\ result' = (pending_eviction # NoLayer)
          /\ result' =>
                /\ pending_eviction' = NoLayer
                /\ AllocatorEmpty(atlas_pages'[pending_eviction])
                /\ page_meta'[pending_eviction].last_use = 0
                /\ current_page' = pending_eviction
                /\ atlas_evictions_count' = atlas_evictions_count + 1
          /\ ~result' =>
                UNCHANGED <<atlas_pages, page_meta, current_page, use_clock,
                            pending_eviction, policy, atlas_inserts,
                            atlas_insert_misses, atlas_evictions_count, atlas_evicted>>
          /\ op = "evict_one_page" => ~result']_vars

(* evict_one_page emptied a used page that was not the current page.       *)
C7_Witness ==
    /\ op = "evict_one_page" /\ result
    /\ atlas_evictions_count >= 1
    /\ current_page = NUM_ATLAS_PAGES - 1
    /\ atlas_inserts >= NUM_ATLAS_PAGES

(* C8 (P3, eviction bounded): evict_one_page leaves the allocator state    *)
(* and last_use of every page but the pending victim unchanged.            *)
C8_EvictionBounded ==
    [][op' = "evict_one_page" =>
          \A l \in Layers :
              l # pending_eviction =>
                  /\ atlas_pages'[l] = atlas_pages[l]
                  /\ page_meta'[l] = page_meta[l]]_vars

(* evict_one_page emptied one page while another page holds glyphs.        *)
C8_Witness ==
    /\ op = "evict_one_page" /\ result
    /\ \E l \in Layers :
          l # current_page /\ atlas_pages[l].used_area > 0 /\ page_meta[l].last_use > 0

LexLeq(a, b) == a[1] < b[1] \/ (a[1] = b[1] /\ a[2] <= b[2])

PageKey(l) == <<page_meta[l].last_use, atlas_pages[l].used_area>>

(* C9 (P4): under LruMinOccupancy the victim a miss schedules minimises    *)
(* (last_use, used_area) lexicographically over all pages.                 *)
C9_LruVictim ==
    [][(op' = "load_glyph" /\ glyph'.tex_id = 0 /\ policy = "LruMinOccupancy"
          /\ pending_eviction = NoLayer) =>
          /\ pending_eviction' \in Layers
          /\ \A l \in Layers : LexLeq(PageKey(pending_eviction'), PageKey(l))]_vars

(* The first miss, under LruMinOccupancy, scheduled a page other than      *)
(* page 0 because page 0 was used later.                                   *)
C9_Witness ==
    /\ IsMiss
    /\ policy = "LruMinOccupancy"
    /\ atlas_insert_misses = 1
    /\ pending_eviction > 0
    /\ page_meta[0].last_use > page_meta[pending_eviction].last_use
    /\ atlas_pages[0].used_area < atlas_pages[pending_eviction].used_area

(* C10: under RoundRobin the victim a miss schedules is                    *)
(* (current_page + 1) mod N; with two used pages, page 1 touched last and  *)
(* current, both policies schedule page 0.                                 *)
C10_RoundRobinVictim ==
    [][(op' = "load_glyph" /\ glyph'.tex_id = 0 /\ pending_eviction = NoLayer) =>
          /\ policy = "RoundRobin" =>
                pending_eviction' = (current_page + 1) % NUM_ATLAS_PAGES
          /\ (NUM_ATLAS_PAGES = 2
                /\ page_meta[1].last_use > page_meta[0].last_use
                /\ current_page = 1) =>
                pending_eviction' = 0]_vars

(* A RoundRobin miss with every page used and the last page current        *)
(* wrapped around to page 0.                                               *)
C10_Witness ==
    /\ IsMiss
    /\ policy = "RoundRobin"
    /\ atlas_insert_misses = 1
    /\ current_page = NUM_ATLAS_PAGES - 1
    /\ pending_eviction = 0
    /\ \A l \in Layers : atlas_pages[l].used_area > 0
    /\ \A l \in Layers : page_meta[NUM_ATLAS_PAGES - 1].last_use >= page_meta[l].last_use

(* C16 (glyph page index): a successful load_glyph returns tex_id =        *)
(* layer + 1 for the page layer in [0, N) the allocator placed the glyph   *)
(* on, a miss returns tex_id = 0, and every staged text vertex has a layer *)
(* in [0, N) that is tex_id - 1 of a real glyph, or 0 for the placeholder. *)
C16_GlyphPageIndex ==
    [][/\ op' = "load_glyph" =>
             LET pr == probe(atlas_pages, current_page, 0, arg'[1], arg'[2])
             IN  IF pr.chosen
                 THEN /\ glyph'.tex_id = pr.page + 1
                      /\ pr.page \in Layers
                      /\ current_page' = pr.page
                 ELSE glyph'.tex_id = 0
       /\ \A k \in DOMAIN glyph_cache' : glyph_cache'[k].tex_id \in 0 .. NUM_ATLAS_PAGES
       /\ \A q \in 0 .. ((Len(pending_text') \div 6) - 1) :
             LET first == pending_text'[6 * q + 1]
                 last == pending_text'[6 * q + 5]
             IN  /\ \A i \in 1 .. 6 : pending_text'[6 * q + i].layer = first.layer
                 /\ first.layer \in Layers
                 /\ \E k \in DOMAIN glyph_cache' :
                       LET g == glyph_cache'[k]
                       IN  /\ first.uv = <<g.uv_left, g.uv_bot>>
                           /\ last.uv = <<FracAdd(g.uv_left, g.uv_width),
                                          FracAdd(g.uv_bot, g.uv_height)>>
                           /\ first.layer = (IF g.tex_id > 0 THEN g.tex_id - 1 ELSE 0)]_vars

(* Vertices are staged for the first and for the last page, and a direct   *)
(* load has just returned the placeholder.                                 *)
C16_Witness ==
    /\ op = "load_glyph" /\ glyph.tex_id = 0
    /\ \E i \in DOMAIN pending_text : pending_text[i].layer = 0
    /\ \E i \in DOMAIN pending_text : pending_text[i].layer = NUM_ATLAS_PAGES - 1

(* C17 (one-shot signal): take_atlas_evicted returns the flag and lowers   *)
(* it, and only a load_glyph miss raises it; so after a call returned true *)
(* every call returns false until the next miss, and with no miss since    *)
(* the last true (or since construction) the call returns false.           *)
C17_OneShot ==
    /\ ~atlas_evicted
    /\ [][/\ op' = "take_atlas_evicted" => (result' = atlas_evicted /\ ~atlas_evicted')
          /\ (atlas_evicted' /\ ~atlas_evicted) => (op' = "load_glyph" /\ glyph'.tex_id = 0)
          /\ (op' = "load_glyph" /\ glyph'.tex_id = 0) => atlas_evicted'
          /\ (op = "take_atlas_evicted" /\ op' = "take_atlas_evicted") => ~result']_vars

(* The flag was raised by two misses and has just been taken.              *)
C17_Witness ==
    /\ op = "take_atlas_evicted" /\ result
    /\ ~atlas_evicted
    /\ atlas_insert_misses = 2

(* A pixel position in NDC, as the text shader projects it                 *)
(* (x * 2 / width - 1, 1 - y * 2 / height).                                *)
Ndc(pos) ==
    <<Frac(2 * pos[1] - size_info.width, size_info.width),
      Frac(size_info.height - 2 * pos[2], size_info.height)>>

(* The rectangle whose first vertex is a and whose fifth is b covers p.    *)
Covers(a, b, p) ==
    /\ a.pos[1][1] <= p[1][1] /\ p[1][1] <= b.pos[1][1]
    /\ b.pos[2][1] <= p[2][1] /\ p[2][1] <= a.pos[2][1]

(* C18 (two-pass ordering): a draw_rects that presents runs the rectangle  *)
(* pass first, with LoadOp::Clear, over the vertices of the staged         *)
(* backgrounds followed by those of the caller's rectangles; then, only if *)
(* pending_text is not empty, the text pass with LoadOp::Load over the     *)
(* staged vertices in staging order; then submit and present.              *)
C18_TwoPassOrdering ==
    [][(op' = "draw_rects" /\ frame'.presented) =>
          /\ \E r \in RectsIn :
                frame'.rects = all_vertices(pending_bg, 1) \o all_vertices(r, 1)
          /\ frame'.text = pending_text
          /\ frame'.log =
                IF pending_text # <<>>
                THEN <<Event("rects-pass", "Clear"), Event("text-pass", "Load"),
                       Event("submit", "-"), Event("present", "-")>>
                ELSE <<Event("rects-pass", "Clear"),
                       Event("submit", "-"), Event("present", "-")>>]_vars

(* A presented frame with a staged background, a caller's rectangle and a  *)
(* glyph quad with a corner inside an opaque rectangle.                    *)
C18_Witness ==
    /\ op = "draw_rects" /\ frame.presented
    /\ Len(frame.log) = 4
    /\ Len(frame.rects) >= 12
    /\ frame.rects[1] # frame.rects[Len(frame.rects) - 5]
    /\ \E q \in 0 .. ((Len(frame.rects) \div 6) - 1), i \in DOMAIN frame.text :
          /\ frame.rects[6 * q + 1].color[4] = 255
          /\ Covers(frame.rects[6 * q + 1], frame.rects[6 * q + 5], Ndc(frame.text[i].pos))
          /\ frame.text[i].uv # <<Frac(0, ATLAS_SIZE), Frac(0, ATLAS_SIZE)>>

IsPrefix(a, b) == Len(a) <= Len(b) /\ SubSeq(b, 1, Len(a)) = a

(* C19 (frame scratch lifetime): after a draw_rects that presents,         *)
(* pending_text and pending_bg are empty and the frame drew all of both;   *)
(* every other step only appends to them, so staged data is drawn by       *)
(* exactly one presented frame.                                            *)
C19_ScratchLifetime ==
    [][IF op' = "draw_rects" /\ frame'.presented
       THEN /\ pending_text' = <<>>
            /\ pending_bg' = <<>>
            /\ frame'.text = pending_text
            /\ IsPrefix(all_vertices(pending_bg, 1), frame'.rects)
       ELSE /\ IsPrefix(pending_text, pending_text')
            /\ IsPrefix(pending_bg, pending_bg')]_vars

(* A presented frame that drew the text and the backgrounds of two staging *)
(* calls and left both buffers empty.                                      *)
C19_Witness ==
    /\ op = "draw_rects" /\ frame.presented
    /\ draws = 2
    /\ Len(frame.text) >= 12
    /\ Len(frame.rects) >= 6
    /\ pending_text = <<>> /\ pending_bg = <<>>

(* C20 (clear colour): clear only records the premultiplied colour and     *)
(* presents nothing; a draw_rects that reaches the rectangle pass clears   *)
(* with the pending colour, or with transparent if there is none, and      *)
(* leaves none pending; no other step changes the pending colour.          *)
C20_ClearOneFrame ==
    [][/\ op' = "clear_color" =>
             /\ \E c \in ClearColors : pending_clear' = clear_color(c[1], c[2])
             /\ frame' = NoFrame
             /\ UNCHANGED <<pending_text, pending_bg>>
       /\ (op' = "draw_rects" /\ frame'.presented) =>
             /\ frame'.clear = (IF pending_clear # NoClear THEN pending_clear ELSE TRANSPARENT)
             /\ pending_clear' = NoClear
       /\ ~(op' = "clear_color" \/ (op' = "draw_rects" /\ frame'.presented)) =>
             pending_clear' = pending_clear]_vars

(* A frame with staged text was cleared with the recorded colour, and no   *)
(* colour is pending any more.                                             *)
C20_Witness ==
    /\ op = "draw_rects" /\ frame.presented
    /\ \E c \in ClearColors : frame.clear = clear_color(c[1], c[2])
    /\ frame.text # <<>>
    /\ pending_clear = NoClear

(* The answers of get_current_texture among the calls of one draw_rects.   *)
Answers(calls) ==
    SelectSeq(calls, LAMBDA c : c.call = "get_current_texture")

(* C21 (surface acquisition failure): in one draw_rects, Outdated or Lost  *)
(* is followed by one configure and exactly one more get_current_texture;  *)
(* OutOfMemory or Timeout ends the call at once; a failed retry ends the   *)
(* call; at most two acquisitions are attempted, and a call that got no    *)
(* frame runs no pass, submits and presents nothing and keeps what is      *)
(* staged.                                                                 *)
C21_AcquireOrAbandon ==
    [][op' = "draw_rects" =>
          LET calls == frame'.surface
              got == Answers(calls)
          IN  /\ Len(got) <= 2
              /\ Len(got) = frame'.attempts
              /\ frame'.presented = (Len(got) > 0 /\ got[Len(got)].answer = "Ok")
              /\ (Len(got) > 0 /\ got[1].answer \in {"Outdated", "Lost"}) =>
                    /\ Len(got) = 2
                    /\ calls[Len(calls) - 1] = SurfaceCall("configure", "-")
                    /\ frame'.configures = 2
              /\ (Len(got) > 0 /\ got[1].answer \in {"OutOfMemory", "Timeout"}) =>
                    /\ Len(got) = 1
                    /\ ~frame'.presented
              /\ (Len(got) > 0 /\ got[1].answer = "Ok") => Len(got) = 1
              /\ ~frame'.presented =>
                    /\ frame'.log = <<>>
                    /\ frame'.rects = <<>> /\ frame'.text = <<>>
                    /\ UNCHANGED <<pending_text, pending_bg, pending_clear>>]_vars

(* A frame with staged text was abandoned after a Timeout on the first     *)
(* acquisition.                                                            *)
C21_Witness ==
    /\ op = "draw_rects" /\ ~frame.presented
    /\ frame.attempts = 1
    /\ frame.surface[Len(frame.surface)] = SurfaceCall("get_current_texture", "Timeout")
    /\ pending_text # <<>>

(* The characters draw_cells looks up for a cell, after the primary one,   *)
(* as the code takes them.                                                 *)
RECURSIVE Lookups(_, _)
Lookups(cells, i) ==
    IF i > Len(cells) THEN <<>>
    ELSE LET cell == cells[i]
             font == font_key_of(cell.flags)
         IN  <<<<font, normalize(cell).character>>>>
             \o [k \in 1 .. Len(zerowidth_of(cell)) |-> <<font, zerowidth_of(cell)[k]>>]
             \o Lookups(cells, i + 1)

(* The quads the normalisation rule allows a cell.                         *)
QuadsOf(cell) ==
    IF cell.character = "\t" \/ "HIDDEN" \in cell.flags
    THEN 1 ELSE 1 + Len(cell.zerowidth)

RECURSIVE QuadsOfAll(_, _)
QuadsOfAll(cells, i) ==
    IF i > Len(cells) THEN 0 ELSE QuadsOf(cells[i]) + QuadsOfAll(cells, i + 1)

(* C22 (draw_cells normalisation), as stated: a tab or hidden cell looks   *)
(* up the space glyph and gets one quad, none for its zero-width           *)
(* characters; every other cell gets one more quad per zero-width          *)
(* character.                                                              *)
C22_Claim_Normalisation ==
    [][op' = "draw_cells" =>
          /\ Len(pending_text') - Len(pending_text) = 6 * QuadsOfAll(drawn', 1)
          /\ \A i \in DOMAIN drawn' :
                (drawn'[i].character = "\t" \/ "HIDDEN" \in drawn'[i].flags) =>
                    <<font_key_of(drawn'[i].flags), " ">> \in DOMAIN glyph_cache']_vars

(* The lookups of a run that did not end in the placeholder.               *)
RealLookups(keys, cache) == SelectSeq(keys, LAMBDA k : cache[k].tex_id # 0)

(* C23 (placeholder contributes no vertices), as stated: draw_cells adds   *)
(* six vertices for every glyph lookup that returned a real glyph and      *)
(* nothing for a lookup that returned the placeholder.                     *)
C23_Claim_PlaceholderAddsNothing ==
    [][op' = "draw_cells" =>
          Len(pending_text') - Len(pending_text)
              = 6 * Len(RealLookups(Lookups(drawn', 1), glyph_cache'))]_vars

(* The background rectangles of the cells with bg_alpha > 0, in order.     *)
RECURSIVE Backgrounds(_, _)
Backgrounds(cells, i) ==
    IF i > Len(cells) THEN <<>>
    ELSE (IF cells[i].bg_alpha > 0
          THEN <<RenderRect(cells[i].point.column * size_info.cell_width + size_info.padding_x,
                            cells[i].point.line * size_info.cell_height + size_info.padding_y,
                            size_info.cell_width, size_info.cell_height,
                            cells[i].bg, cells[i].bg_alpha)>>
          ELSE <<>>)
         \o Backgrounds(cells, i + 1)

(* C24 (cell backgrounds): draw_cells appends to pending_bg one rectangle  *)
(* for each cell with bg_alpha > 0 and none for the others, one cell wide  *)
(* and high at (column * cell_width + padding_x, line * cell_height +      *)
(* padding_y), in cell order, after the rectangles staged before.          *)
C24_CellBackgrounds ==
    [][op' = "draw_cells" =>
          pending_bg' = pending_bg \o Backgrounds(drawn', 1)]_vars

(* A second draw_cells of the frame appended its background behind the one *)
(* staged before, and cells without a background were drawn in the run.    *)
C24_Witness ==
    /\ op = "draw_cells" /\ draws = 2
    /\ Len(pending_bg) = 2
    /\ pending_bg[1] # pending_bg[2]
    /\ pending_bg[2] = RenderRect(drawn[1].point.column * size_info.cell_width + 1,
                                  drawn[1].point.line * size_info.cell_height + 1,
                                  2, 3, Red, drawn[1].bg_alpha)
    /\ Len(pending_text) = 12

(* C25 (text vertex flags): the six vertices of every quad draw_cells      *)
(* stages carry the same flags, in 0 .. 3, with bit 0 set iff the glyph of *)
(* the lookup is multicolor, which a real glyph is iff its bitmap is RGBA, *)
(* and bit 1 set iff subpixel_enabled.                                     *)
C25_VertexFlags ==
    [][op' = "draw_cells" =>
          LET keys == Lookups(drawn', 1)
              base == Len(pending_text)
          IN  /\ Len(pending_text') = base + 6 * Len(keys)
              /\ \A q \in DOMAIN keys : \A i \in 1 .. 6 :
                    LET flags == pending_text'[base + 6 * (q - 1) + i].flags
                        g == glyph_cache'[keys[q]]
                    IN  /\ flags \in 0 .. 3
                        /\ (flags % 2 = 1) = g.multicolor
                        /\ g.tex_id # 0 => (g.multicolor = rasterize(keys[q]).rgba)
                        /\ ((flags \div 2) % 2 = 1) = subpixel_enabled]_vars

(* With subpixel rendering on, a colour glyph was staged behind the        *)
(* placeholder of a coverage glyph: flags 3 after flags 2.                 *)
C25_Witness ==
    /\ op = "draw_cells" /\ subpixel_enabled
    /\ <<"bold_key", "M">> \in DOMAIN glyph_cache
    /\ glyph_cache[<<"bold_key", "M">>].tex_id = 0
    /\ Len(pending_text) = 12
    /\ pending_text[1].flags = 2
    /\ pending_text[7].flags = 3

(* C26 (coverage glyphs in subpixel mode), as stated: a pixel of an Rgb    *)
(* bitmap with coverage above zero, uploaded by load_glyph and shaded with *)
(* bit 0 clear, gives a fragment with alpha above zero, with bit 1 set as  *)
(* with bit 1 clear.                                                       *)
C26_Claim_CoverageVisible ==
    (op = "fs_main" /\ fragment.buffer = "Rgb" /\ fragment.source[1] > 0
        /\ fragment.flags % 2 = 0)
        => fragment.out[4][1] > 0

(* Two quotients have the same value.                                      *)
FracEq(a, b) == a[1] * b[2] = b[1] * a[2]

(* The vertex position pos is the image of the pixel point (x, y) under    *)
(* ndc_x = x / (W/2) - 1, ndc_y = 1 - y / (H/2), written over W and H.     *)
IsNdcOf(pos, x, y) ==
    /\ FracEq(pos[1], Frac(2 * x - size_info.width, size_info.width))
    /\ FracEq(pos[2], Frac(size_info.height - 2 * y, size_info.height))

(* C27 (P6, NDC mapping): the quad draw_rects builds for a rectangle       *)
(* (x, y, w, h) has the corners (x, y), (x, y + h), (x + w, y) and         *)
(* (x + w, y + h) under ndc_x = x / (W/2) - 1, ndc_y = 1 - y / (H/2);      *)
(* the pixel point (0, 0) maps to (-1, +1) and (W, H) to (+1, -1).         *)
C27_NdcMapping ==
    [][(op' = "draw_rects" /\ frame'.presented) =>
          \E r \in RectsIn :
              LET all == pending_bg \o r
              IN  /\ Len(frame'.rects) = 6 * Len(all)
                  /\ \A q \in DOMAIN all :
                        LET v == [i \in 1 .. 6 |-> frame'.rects[6 * (q - 1) + i].pos]
                            x == all[q].x
                            y == all[q].y
                            w == all[q].width
                            h == all[q].height
                        IN  /\ IsNdcOf(v[1], x, y)
                            /\ IsNdcOf(v[2], x, y + h)
                            /\ IsNdcOf(v[3], x + w, y)
                            /\ IsNdcOf(v[5], x + w, y + h)
                            /\ v[4] = v[3] /\ v[6] = v[2]
                            /\ (x = 0 /\ y = 0) =>
                                  FracEq(v[1][1], Frac(-1, 1)) /\ FracEq(v[1][2], Frac(1, 1))
                            /\ (x + w = size_info.width /\ y + h = size_info.height) =>
                                  FracEq(v[5][1], Frac(1, 1)) /\ FracEq(v[5][2], Frac(-1, 1))]_vars

(* A presented frame drew a cell background and a rectangle that spans the *)
(* surface from (-1, +1) to (+1, -1).                                      *)
C27_Witness ==
    /\ op = "draw_rects" /\ frame.presented
    /\ Len(frame.rects) = 12
    /\ ~FracEq(frame.rects[1].pos[1], Frac(-1, 1))
    /\ FracEq(frame.rects[7].pos[1], Frac(-1, 1)) /\ FracEq(frame.rects[7].pos[2], Frac(1, 1))
    /\ FracEq(frame.rects[11].pos[1], Frac(1, 1)) /\ FracEq(frame.rects[11].pos[2], Frac(-1, 1))

(* C28 (resize): resize(W, H) stores the size (W, H) and writes the        *)
(* projection (-1, 1, 2 / W, -2 / H), for W and H of at least 1, and does  *)
(* not configure the surface; the surface gets the new size in the next    *)
(* draw_rects that creates a surface, and nowhere else.                    *)
C28_ResizeProjection ==
    [][/\ op' = "resize" =>
             /\ size' = PhysicalSize(arg'[1], arg'[2])
             /\ (arg'[1] >= 1 /\ arg'[2] >= 1) =>
                   /\ proj_buffer'.offset_x = -1
                   /\ proj_buffer'.offset_y = 1
                   /\ FracEq(proj_buffer'.scale_x, Frac(2, arg'[1]))
                   /\ FracEq(proj_buffer'.scale_y, Frac(-2, arg'[2]))
             /\ configured' = configured
       /\ (op' = "draw_rects" /\ frame'.configures > 0 /\ size.width >= 1 /\ size.height >= 1) =>
             configured' = size
       /\ configured' # configured => op' = "draw_rects"]_vars

(* After resize(800, 600) the projection is (-1, 1, 2/800, -2/600) and the *)
(* surface still has the size it was configured with before.               *)
C28_Witness ==
    /\ op = "resize" /\ arg = <<800, 600>>
    /\ proj_buffer = [offset_x |-> -1, offset_y |-> 1,
                      scale_x |-> Frac(2, 800), scale_y |-> Frac(-2, 600)]
    /\ configured = PhysicalSize(4, 2)

C29_WitnessReset ==
    /\ op = "reset_atlas"
    /\ atlas_inserts >= 2 /\ atlas_insert_misses >= 1 /\ atlas_evictions_count = 0
    /\ \A l \in Layers : atlas_pages[l].used_area = 0

(* C30 (loader clear): clear() sets the row state and used_area of every   *)
(* page to 0 and current_page to 0, and leaves every last_use, use_clock,  *)
(* pending_eviction, atlas_evicted and the counters as they were.          *)
C30_LoaderClear ==
    [][op' = "clear" =>
          /\ \A l \in Layers :
                /\ atlas_pages'[l].row_extent = 0
                /\ atlas_pages'[l].row_baseline = 0
                /\ atlas_pages'[l].row_tallest = 0
                /\ atlas_pages'[l].used_area = 0
                /\ atlas_pages'[l].width = atlas_pages[l].width
                /\ atlas_pages'[l].height = atlas_pages[l].height
          /\ current_page' = 0
          /\ UNCHANGED <<page_meta, use_clock, pending_eviction, atlas_evicted,
                         atlas_inserts, atlas_insert_misses, atlas_evictions_count>>]_vars

(* clear() emptied pages that had all been used, with an eviction pending  *)
(* and the flag raised: the stamps, the victim and the flag are still      *)
(* there.                                                                  *)
C30_Witness ==
    /\ op = "clear"
    /\ \A l \in Layers : atlas_pages[l].used_area = 0 /\ page_meta[l].last_use > 0
    /\ atlas_evictions_count = 0
    /\ pending_eviction # NoLayer
    /\ atlas_evicted
    /\ use_clock > NUM_ATLAS_PAGES

(* C31 (P8, idempotent clear): clear() sets row_extent, row_baseline,      *)
(* row_tallest and used_area to 0 and keeps width and height; a second     *)
(* clear() in a row changes nothing; the cleared page is the page new()    *)
(* builds for that size, so every later insert finds it as a fresh one.    *)
C31_ClearIdempotent ==
    [][op' = "page_clear" =>
          /\ atlas_pages'[0].row_extent = 0
          /\ atlas_pages'[0].row_baseline = 0
          /\ atlas_pages'[0].row_tallest = 0
          /\ atlas_pages'[0].used_area = 0
          /\ atlas_pages'[0].width = atlas_pages[0].width
          /\ atlas_pages'[0].height = atlas_pages[0].height
          /\ atlas_pages'[0] = WgpuAtlas_new(atlas_pages[0].width)
          /\ WgpuAtlas_clear(atlas_pages'[0]) = atlas_pages'[0]
          /\ op = "page_clear" => atlas_pages' = atlas_pages]_vars

(* A page was cleared after a successful insert.                           *)
C31_Witness ==
    /\ op = "page_clear"
    /\ arg # <<0, 0>>
    /\ atlas_pages[0] = WgpuAtlas_new(ATLAS_SIZE)

(* C33 (failed insert has no side effect), as stated: when insert returns  *)
(* None the page's row_extent, row_baseline, row_tallest and used_area are *)
(* as before the call.                                                     *)
C33_Claim_FailedInsertKeepsPage ==
    [][(op' = "insert" /\ ~result') => atlas_pages'[0] = atlas_pages[0]]_vars

(* C34 (take implies evict), as stated: whenever take_atlas_evicted       *)
(* returns true, an evict_one_page called right after it returns true.     *)
C34_Claim_TakeThenEvict ==
    [][(op = "take_atlas_evicted" /\ result /\ op' = "evict_one_page") => result']_vars

(* C35 (dropped frame keeps staged data): a draw_rects that gets no frame *)
(* leaves pending_text, pending_bg and the pending clear colour as they    *)
(* were; what is staged after it is appended behind what was kept, and the *)
(* next draw_rects that presents clears with the kept colour, draws all of *)
(* the kept and the new data and leaves nothing pending.                   *)
C35_DroppedFrameCarriesOver ==
    [][/\ (op' = "draw_rects" /\ ~frame'.presented) =>
             /\ pending_text' = pending_text
             /\ pending_bg' = pending_bg
             /\ pending_clear' = pending_clear
             /\ frame'.text = <<>> /\ frame'.rects = <<>> /\ frame'.clear = <<>>
       /\ (op = "draw_rects" /\ ~frame.presented /\ op' \in {"draw_cells", "draw_string"}) =>
             /\ IsPrefix(pending_text, pending_text')
             /\ IsPrefix(pending_bg, pending_bg')
             /\ pending_clear' = pending_clear
       /\ (op = "draw_rects" /\ ~frame.presented /\ op' = "clear_color") =>
             /\ pending_text' = pending_text
             /\ pending_bg' = pending_bg
       /\ (op' = "draw_rects" /\ frame'.presented) =>
             /\ frame'.text = pending_text
             /\ IsPrefix(all_vertices(pending_bg, 1), frame'.rects)
             /\ frame'.clear = (IF pending_clear # NoClear THEN pending_clear ELSE TRANSPARENT)
             /\ pending_text' = <<>> /\ pending_bg' = <<>> /\ pending_clear' = NoClear]_vars

(* A frame was dropped with text, a background and a clear colour staged   *)
(* by two staging calls, and all three are still pending.                  *)
C35_Witness ==
    /\ op = "draw_rects" /\ ~frame.presented
    /\ draws = 2
    /\ Len(pending_text) >= 12
    /\ pending_bg # <<>>
    /\ pending_clear # NoClear

(* C36 (miss leaves the metadata alone): a load_glyph that returns the    *)
(* placeholder raises atlas_evicted, adds one to atlas_insert_misses and   *)
(* sets pending_eviction if none was pending; current_page, use_clock, the *)
(* inserts and evictions counters and every page's used_area and last_use  *)
(* are as before the call.                                                 *)
C36_MissKeepsMetadata ==
    [][(op' = "load_glyph" /\ glyph'.tex_id = 0) =>
          /\ current_page' = current_page
          /\ use_clock' = use_clock
          /\ atlas_inserts' = atlas_inserts
          /\ atlas_evictions_count' = atlas_evictions_count
          /\ \A l \in Layers :
                /\ atlas_pages'[l].used_area = atlas_pages[l].used_area
                /\ page_meta'[l].last_use = page_meta[l].last_use
          /\ pending_eviction' \in Layers
          /\ pending_eviction # NoLayer => pending_eviction' = pending_eviction
          /\ atlas_evicted'
          /\ atlas_insert_misses' = atlas_insert_misses + 1]_vars

(* A second miss, with pages in use and the current page not page 0.       *)
C36_Witness ==
    /\ IsMiss
    /\ atlas_insert_misses = 2
    /\ current_page # 0
    /\ \E l \in Layers : atlas_pages[l].used_area > 0 /\ page_meta[l].last_use > 0

(* Every stamp is 0 or older than the clock, and no two pages carry the    *)
(* same stamp unless it is 0.                                              *)
StampsInOrder ==
    /\ \A l \in Layers : page_meta[l].last_use = 0 \/ page_meta[l].last_use < use_clock
    /\ \A l, m \in Layers :
          (l # m /\ page_meta[l].last_use = page_meta[m].last_use) =>
              page_meta[l].last_use = 0

(* C37 (LRU clock invariant): use_clock never decreases and grows by one   *)
(* on each successful insert and on nothing else; each page's last_use is  *)
(* 0 or strictly less than use_clock; no two pages share a non-zero        *)
(* last_use, so the key (last_use, used_area) of LruMinOccupancy is        *)
(* decided by used_area only between pages with last_use 0.                *)
C37_LruClock ==
    [][/\ use_clock' >= use_clock
       /\ use_clock' = use_clock + (atlas_inserts' - atlas_inserts)
       /\ (op' = "load_glyph" /\ glyph'.tex_id # 0) => use_clock' = use_clock + 1
       /\ StampsInOrder
       /\ StampsInOrder'
       /\ \A l, m \in Layers :
             (l # m /\ key_less(<<page_meta'[l].last_use, atlas_pages'[l].used_area>>,
                               <<page_meta'[m].last_use, atlas_pages'[m].used_area>>)
                   /\ page_meta'[l].last_use # 0) =>
                 page_meta'[l].last_use < page_meta'[m].last_use]_vars

(* After an eviction a third insert stamped the evicted page: every page   *)
(* carries a stamp, all distinct and older than the clock.                 *)
C37_Witness ==
    /\ op = "load_glyph" /\ glyph.tex_id # 0
    /\ use_clock = 4
    /\ atlas_evictions_count = 1
    /\ \A l \in Layers : page_meta[l].last_use > 0

(* C38 (counters): every load_glyph adds one to exactly one of           *)
(* atlas_inserts (it returned a glyph of the atlas) and                    *)
(* atlas_insert_misses (it returned the placeholder) and leaves the other  *)
(* as it was; atlas_evictions_count never exceeds atlas_insert_misses.     *)
C38_Counters ==
    [][/\ op' = "load_glyph" =>
             IF glyph'.tex_id # 0
             THEN /\ atlas_inserts' = atlas_inserts + 1
                  /\ atlas_insert_misses' = atlas_insert_misses
             ELSE /\ atlas_inserts' = atlas_inserts
                  /\ atlas_insert_misses' = atlas_insert_misses + 1
       /\ atlas_evictions_count <= atlas_insert_misses
       /\ atlas_evictions_count' <= atlas_insert_misses']_vars

(* Both misses of a run were followed by an eviction, after a hit.         *)
C38_Witness ==
    /\ op = "evict_one_page" /\ result
    /\ atlas_inserts >= 1
    /\ atlas_insert_misses = 2
    /\ atlas_evictions_count = 2

(* C32 (sync status round trip), as stated: write_status followed by      *)
(* status() returns the last_push, last_pull and pending that were         *)
(* written, and status() without a status file returns the default.        *)
C32_Claim_StatusRoundTrip ==
    [][op' = "status" =>
          /\ op = "write_status" => result' = arg
          /\ ~status_file.exists => result' = SyncStatus_default]_vars

(* The selection is 0 on an empty filtered list and inside a non-empty    *)
(* one, every filtered index is the index of an item, and selected_entry   *)
(* returns an entry exactly if the filtered list is not empty.             *)
SelectionInRange ==
    LET n == Len(palette.filtered_indices)
    IN  /\ n = 0 => palette.selected = 0
        /\ n > 0 => palette.selected < n
        /\ palette.selected >= 0
        /\ \A k \in 1 .. n :
              palette.filtered_indices[k] >= 0 /\ palette.filtered_indices[k] < Len(palette.items)
        /\ (selected_entry(palette) # <<>>) <=> (n > 0)

(* C39 (palette selection invariant): after every open, close, set_filter, *)
(* push_filter_char, pop_filter_char and move_selection the selection is 0 *)
(* on an empty filtered list and below its length otherwise, every         *)
(* filtered index refers to an item, and selected_entry returns an entry   *)
(* iff the filtered list is not empty; move_selection moves by delta and   *)
(* stops at the first and at the last filtered item.                       *)
C39_PaletteSelection ==
    [][/\ SelectionInRange
       /\ SelectionInRange'
       /\ op' = "move_selection" =>
             LET n == Len(palette.filtered_indices)
             IN  /\ palette'.filtered_indices = palette.filtered_indices
                 /\ palette'.selected =
                       IF n = 0 THEN 0
                       ELSE Max(0, Min(n - 1, palette.selected + arg'[1]))]_vars

(* Under a filter that leaves two of three items, a move past the end of   *)
(* the list stopped at the last filtered item.                             *)
C39_Witness ==
    /\ op = "move_selection"
    /\ arg = <<MaxDelta, 0>>
    /\ Len(palette.items) = 3
    /\ palette.filtered_indices = <<0, 2>>
    /\ palette.selected = 1
    /\ selected_entry(palette) = <<PaletteEntry("Action", "Paste")>>

====
